---- MODULE Spec2Model ----
(***************************************************************************)
(* Verification model of the Data-Sorter classification engine:            *)
(* column detection (src/detect_columns.py), the Ireland rule chain        *)
(* (src/ireland.py, src/classifier.py), the Spain classifier               *)
(* (src/spain_classifier.py, src/spain.py), the combined address           *)
(* (src/build_address.py, src/models.py), the loading of the               *)
(* configuration files, the stats aggregation (src/output.py), the         *)
(* configuration editor (src/config_editor.py), the Eircode matcher and    *)
(* the concurrent first use of the district table (src/ireland.py).        *)
(*                                                                         *)
(* Texts are sequences of one-character strings, so that every matcher is  *)
(* computed character by character as the regular expressions of the code  *)
(* do.  Area names, routing names and reasons are strings.                 *)
(***************************************************************************)
EXTENDS Integers, Sequences, FiniteSets, TLC

VARIABLES
    text,               \* match_dublin_district: the argument
    district_patterns,  \* ireland._DISTRICT_PATTERNS, the memoized table
    district,           \* match_dublin_district: the returned label
    dpc,                \* position of the district call
    actual_columns,     \* detect_columns: the list of column names given
    aliases,            \* detect_columns: the loaded alias table
    available,          \* detect_columns: the set of unclaimed columns, in
                        \* its iteration order
    mapping,            \* detect_columns: the dict field -> column
    pass,               \* detect_columns: the pass being run (1, 2, 3)
    field_idx,          \* detect_columns: index of the next field in the pass
    outcome,            \* detect_columns: "running", "returned" or the
                        \* name of the exception raised
    col_map,            \* detect_columns: the ColumnMapping returned
    profile,            \* which classifier is constructed: "ireland" (the
                        \* Classifier) or "spain" (the SpainClassifier)
    config,             \* Classifier.config, the loaded rules
    d1_mapping,         \* SpainClassifier.d1_mapping
    rules_file,         \* the file at the config_path of Classifier(...)
    columns_file,       \* the file at the config_path of detect_columns
    engine,             \* the object the constructor call has yielded
    raised,             \* the exception the pipeline has stopped with
    lpc,                \* position of the pipeline that loads the files
    combined,           \* _classify_row: the row's combined address
    country_val,        \* _classify_row: the row's country value
    pc_col,             \* _classify_row: the row's mapped postcode cell
    result,             \* _classify_row: the ClassificationResult returned
    calls,              \* _classify_row: the functions it called, in order
    rpc,                \* position of the _classify_row call
    df_in,              \* add_combined_address: the table it is given
    df,                 \* add_combined_address: the table it returns, which
                        \* classify is given
    results,            \* classify: the list of the rows' results
    df_classified,      \* classify: the classified table returned
    df_exceptions,      \* classify: the exception table returned
    stats,              \* write_output: the PipelineStats returned
    cpc,                \* position of the classify / write_output calls
    now,                \* datetime.now(), in whole seconds
    backups,            \* the .bak files: backup path -> content
    save_result,        \* the tuple the last save call returned
    saves,              \* history: the successful saves, in order
    rules_versions,     \* history: the contents rules.yaml has had
    engines,            \* the Classifier objects constructed so far
    used,               \* index of the Classifier of the last classify call
    eircode_text,       \* match_eircode: the text argument
    routing_table,      \* match_eircode: the eircode_routing argument
    matched_area,       \* match_eircode: the value returned
    epc,                \* position of the match_eircode call
    worker_text,        \* per worker: the text of its match_dublin_district
    worker_pc,          \* per worker: its position in match_dublin_district
                        \* and build_dublin_patterns
    local_patterns,     \* per worker: the dict its patterns variable refers to
    worker_label        \* per worker: the label returned

districtVars == <<text, district_patterns, district, dpc>>

detectVars ==
    <<actual_columns, aliases, available, mapping, pass, field_idx, outcome,
      col_map>>

engineVars ==
    <<profile, config, d1_mapping, rules_file, columns_file, engine, raised, lpc>>

rowVars == <<combined, country_val, pc_col, result, calls, rpc>>

tableVars == <<df_in, df, results, df_classified, df_exceptions, stats, cpc>>

editVars == <<now, backups, save_result, saves, rules_versions, engines, used>>

matchVars == <<eircode_text, routing_table, matched_area, epc>>

workerVars == <<worker_text, worker_pc, local_patterns, worker_label>>

vars ==
    <<districtVars, detectVars, engineVars, rowVars, tableVars, editVars,
      matchVars, workerVars>>

(***************************************************************************)
(* Python values and character classes                                     *)
(***************************************************************************)
None == "<None>"

LowerLetters ==
    <<"a","b","c","d","e","f","g","h","i","j","k","l","m",
      "n","o","p","q","r","s","t","u","v","w","x","y","z">>

UpperLetters ==
    <<"A","B","C","D","E","F","G","H","I","J","K","L","M",
      "N","O","P","Q","R","S","T","U","V","W","X","Y","Z">>

DigitChars == {"0","1","2","3","4","5","6","7","8","9"}

SpaceChars == {" ", "\t", "\n"}

LetterPairs == {<<UpperLetters[i], LowerLetters[i]>> : i \in 1..26}

UpperSet == {p[1] : p \in LetterPairs}

LowerSet == {p[2] : p \in LetterPairs}

PunctChars == {",", ".", "-", "_", "/"}

\* the characters texts are made of
Chars == UpperSet \cup LowerSet \cup DigitChars \cup SpaceChars \cup PunctChars

IsUpper(c) == c \in UpperSet

IsLower(c) == c \in LowerSet

IsLetter(c) == c \in UpperSet \/ c \in LowerSet

IsDigit(c) == c \in DigitChars

IsSpace(c) == c \in SpaceChars

\* \w of the re module: letters, digits and the underscore
IsWordChar(c) == IsLetter(c) \/ IsDigit(c) \/ c = "_"

LowerMap ==
    [c \in Chars |-> IF c \in UpperSet
                     THEN (CHOOSE p \in LetterPairs : p[1] = c)[2] ELSE c]

UpperMap ==
    [c \in Chars |-> IF c \in LowerSet
                     THEN (CHOOSE p \in LetterPairs : p[2] = c)[1] ELSE c]

LowerChar(c) == LowerMap[c]

UpperChar(c) == UpperMap[c]

\* str.lower() and str.upper()
LowerText(t) == [i \in 1..Len(t) |-> LowerChar(t[i])]

UpperText(t) == [i \in 1..Len(t) |-> UpperChar(t[i])]

\* the literal lit stands in t at position i (re.IGNORECASE when ci)
LiteralAt(t, i, lit, ci) ==
    /\ i >= 1
    /\ i + Len(lit) - 1 <= Len(t)
    /\ \A k \in 1..Len(lit) :
          IF ci THEN LowerChar(t[i + k - 1]) = LowerChar(lit[k])
                ELSE t[i + k - 1] = lit[k]

\* first position at or after i whose character is not in the class
\* (the end of a greedy run of class characters starting at i)
RECURSIVE SkipClass(_, _, _)
SkipClass(t, i, class) ==
    IF i <= Len(t) /\ t[i] \in class THEN SkipClass(t, i + 1, class) ELSE i

\* str.strip(): leading and trailing whitespace removed
RECURSIVE LStrip(_)
LStrip(t) == IF t /= <<>> /\ IsSpace(Head(t)) THEN LStrip(Tail(t)) ELSE t

RECURSIVE RStrip(_)
RStrip(t) ==
    IF t /= <<>> /\ IsSpace(t[Len(t)]) THEN RStrip(SubSeq(t, 1, Len(t) - 1)) ELSE t

Strip(t) == RStrip(LStrip(t))

RECURSIVE Flatten(_)
Flatten(ss) == IF ss = <<>> THEN <<>> ELSE Head(ss) \o Flatten(Tail(ss))

\* all sequences over S of length 0..n
SeqsUpTo(S, n) == UNION {[1..k -> S] : k \in 0..n}

(***************************************************************************)
(* src/ireland.py: Dublin districts                                        *)
(***************************************************************************)
DublinWord == <<"d","u","b","l","i","n">>

\* the district list in ascending order: what the table would be without
\* the descending order of the source
DUBLIN_DISTRICTS_ascending ==
    << [id |-> <<"1">>, label |-> "Dublin 1"],
       [id |-> <<"2">>, label |-> "Dublin 2"],
       [id |-> <<"3">>, label |-> "Dublin 3"],
       [id |-> <<"4">>, label |-> "Dublin 4"],
       [id |-> <<"5">>, label |-> "Dublin 5"],
       [id |-> <<"6">>, label |-> "Dublin 6"],
       [id |-> <<"6","W">>, label |-> "Dublin 6W"],
       [id |-> <<"7">>, label |-> "Dublin 7"],
       [id |-> <<"8">>, label |-> "Dublin 8"],
       [id |-> <<"9">>, label |-> "Dublin 9"],
       [id |-> <<"1","0">>, label |-> "Dublin 10"],
       [id |-> <<"1","1">>, label |-> "Dublin 11"],
       [id |-> <<"1","2">>, label |-> "Dublin 12"],
       [id |-> <<"1","3">>, label |-> "Dublin 13"],
       [id |-> <<"1","4">>, label |-> "Dublin 14"],
       [id |-> <<"1","5">>, label |-> "Dublin 15"],
       [id |-> <<"1","6">>, label |-> "Dublin 16"],
       [id |-> <<"1","7">>, label |-> "Dublin 17"],
       [id |-> <<"1","8">>, label |-> "Dublin 18"],
       [id |-> <<"2","0">>, label |-> "Dublin 20"],
       [id |-> <<"2","2">>, label |-> "Dublin 22"],
       [id |-> <<"2","4">>, label |-> "Dublin 24"] >>

\* DUBLIN_DISTRICTS, in the order of the source list; id holds the
\* characters of the district, label the f"Dublin {district}" string
DUBLIN_DISTRICTS ==
    << [id |-> <<"2","4">>, label |-> "Dublin 24"],
       [id |-> <<"2","2">>, label |-> "Dublin 22"],
       [id |-> <<"2","0">>, label |-> "Dublin 20"],
       [id |-> <<"1","8">>, label |-> "Dublin 18"],
       [id |-> <<"1","7">>, label |-> "Dublin 17"],
       [id |-> <<"1","6">>, label |-> "Dublin 16"],
       [id |-> <<"1","5">>, label |-> "Dublin 15"],
       [id |-> <<"1","4">>, label |-> "Dublin 14"],
       [id |-> <<"1","3">>, label |-> "Dublin 13"],
       [id |-> <<"1","2">>, label |-> "Dublin 12"],
       [id |-> <<"1","1">>, label |-> "Dublin 11"],
       [id |-> <<"1","0">>, label |-> "Dublin 10"],
       [id |-> <<"9">>, label |-> "Dublin 9"],
       [id |-> <<"8">>, label |-> "Dublin 8"],
       [id |-> <<"7">>, label |-> "Dublin 7"],
       [id |-> <<"6","W">>, label |-> "Dublin 6W"],
       [id |-> <<"6">>, label |-> "Dublin 6"],
       [id |-> <<"5">>, label |-> "Dublin 5"],
       [id |-> <<"4">>, label |-> "Dublin 4"],
       [id |-> <<"3">>, label |-> "Dublin 3"],
       [id |-> <<"2">>, label |-> "Dublin 2"],
       [id |-> <<"1">>, label |-> "Dublin 1"] >>

\* sep = [\s\-\.]*
SepChars == SpaceChars \cup {"-", "."}

\* build_dublin_patterns without the branch for "6W": the district is
\* compiled like any other non-numeric one, dublin{sep}6W(?![0-9wW])
PatternKind_no6W(d) ==
    IF Len(d.id) >= 2 /\ \A k \in 1..Len(d.id) : IsDigit(d.id[k]) THEN "multi"
    ELSE "single"

\* the three regular expressions of build_dublin_patterns, by kind:
\*   "6W"     dublin{sep}6\s*w(?![a-z])
\*   "multi"  dublin{sep}{district}(?![0-9])
\*   "single" dublin{sep}{district}(?![0-9wW])
\* all compiled with re.IGNORECASE
PatternKind(d) ==
    IF d.id = <<"6","W">> THEN "6W"
    ELSE IF Len(d.id) >= 2 /\ \A k \in 1..Len(d.id) : IsDigit(d.id[k]) THEN "multi"
    ELSE "single"

\* the compiled pattern of kind/id matches t with "dublin" starting at i.
\* The separator and \s* runs are taken whole: their characters are
\* disjoint from what must follow, so no shorter run can match.
DistrictPatternAt(p, t, i) ==
    /\ LiteralAt(t, i, DublinWord, TRUE)
    /\ LET j == SkipClass(t, i + Len(DublinWord), SepChars)
       IN  CASE p.kind = "6W" ->
                 /\ LiteralAt(t, j, <<"6">>, TRUE)
                 /\ LET k == SkipClass(t, j + 1, SpaceChars)
                    IN  /\ LiteralAt(t, k, <<"w">>, TRUE)
                        /\ ~(k + 1 <= Len(t) /\ IsLetter(t[k + 1]))
            [] p.kind = "multi" ->
                 /\ LiteralAt(t, j, p.id, TRUE)
                 /\ LET e == j + Len(p.id)
                    IN  ~(e <= Len(t) /\ IsDigit(t[e]))
            [] OTHER ->
                 /\ LiteralAt(t, j, p.id, TRUE)
                 /\ LET e == j + Len(p.id)
                    IN  ~(e <= Len(t) /\ (IsDigit(t[e]) \/ t[e] \in {"w", "W"}))

\* pattern.search(text)
DistrictPatternSearch(p, t) == \E i \in 1..Len(t) : DistrictPatternAt(p, t, i)

\* the table build_dublin_patterns builds: one pattern per district, in
\* the insertion order of the dict
BuiltPatterns ==
    [n \in 1..Len(DUBLIN_DISTRICTS) |->
        [label |-> DUBLIN_DISTRICTS[n].label,
         kind  |-> PatternKind(DUBLIN_DISTRICTS[n]),
         id    |-> DUBLIN_DISTRICTS[n].id]]

\* build_dublin_patterns(): the memoized table if it is non-empty,
\* otherwise a freshly built one
build_dublin_patterns(cache) == IF cache /= <<>> THEN cache ELSE BuiltPatterns

\* the loop of match_dublin_district over patterns.items(): first match wins
FirstDistrict(patterns, t) ==
    IF \E n \in 1..Len(patterns) : DistrictPatternSearch(patterns[n], t)
    THEN patterns[CHOOSE n \in 1..Len(patterns) :
                    /\ DistrictPatternSearch(patterns[n], t)
                    /\ \A m \in 1..(n - 1) : ~DistrictPatternSearch(patterns[m], t)].label
    ELSE None

match_dublin_district(t, cache) ==
    IF t = <<>> THEN None ELSE FirstDistrict(build_dublin_patterns(cache), t)

(***************************************************************************)
(* src/ireland.py: Eircode and keyword matchers                            *)
(***************************************************************************)
\* the index of the first n in 1..len with P(n), 0 when there is none:
\* the position at which a for loop with an early return stops
FirstIndex(len, P(_)) ==
    IF \E n \in 1..len : P(n)
    THEN CHOOSE n \in 1..len : P(n) /\ \A m \in 1..(n - 1) : ~P(m)
    ELSE 0

\* \b of the re module at position i of t (between t[i-1] and t[i])
WordBoundary(t, i) ==
    (i - 1 >= 1 /\ i - 1 <= Len(t) /\ IsWordChar(t[i - 1]))
        /= (i >= 1 /\ i <= Len(t) /\ IsWordChar(t[i]))

\* The keyword patterns of rules.yaml are literals, optionally between two
\* \b: a pattern is [lit |-> characters, wb |-> BOOLEAN].
\* re.search(pattern, t, re.IGNORECASE)
KeywordSearch(p, t) ==
    \E i \in 1..(Len(t) + 1) :
        /\ LiteralAt(t, i, p.lit, TRUE)
        /\ p.wb => WordBoundary(t, i) /\ WordBoundary(t, i + Len(p.lit))

\* some pattern of the entry matches
EntryMatches(entry, t) ==
    \E k \in 1..Len(entry.patterns) : KeywordSearch(entry.patterns[k], t)

\* the loop over the entries: the area of the first entry one of whose
\* patterns matches
FirstEntryArea(keywords, t) ==
    LET n == FirstIndex(Len(keywords), LAMBDA m : EntryMatches(keywords[m], t))
    IN  IF n = 0 THEN None ELSE keywords[n].area

match_lettershop_keyword(t, keywords) ==
    IF t = <<>> THEN None ELSE FirstEntryArea(keywords, LowerText(t))

match_national_area(t, keywords) ==
    IF t = <<>> THEN None ELSE FirstEntryArea(keywords, t)

\* str.replace(" ", "")
RemoveSpaces(t) == SelectSeq(t, LAMBDA c : c /= " ")

\* rf"\b{prefix}[A-Z0-9]{{4}}\b" stands in t at position i
EircodeFullAt(t, i, prefix) ==
    /\ WordBoundary(t, i)
    /\ LiteralAt(t, i, prefix, FALSE)
    /\ i + Len(prefix) + 3 <= Len(t)
    /\ \A k \in 0..3 :
          IsUpper(t[i + Len(prefix) + k]) \/ IsDigit(t[i + Len(prefix) + k])
    /\ WordBoundary(t, i + Len(prefix) + 4)

EircodeFullSearch(t, prefix) ==
    \E i \in 1..Len(t) : EircodeFullAt(t, i, prefix)

\* prefix_clean in text_upper
Contains(t, lit) == \E i \in 1..(Len(t) + 1) : LiteralAt(t, i, lit, FALSE)

\* a matcher with a single loop, which tries the full code and then the
\* bare prefix of each entry in turn
match_eircode_oneLoop(t, eircode_routing) ==
    IF t = <<>> THEN None
    ELSE LET text_upper == RemoveSpaces(UpperText(t))
             clean(n) == RemoveSpaces(UpperText(eircode_routing[n].prefix))
             hit == FirstIndex(Len(eircode_routing),
                               LAMBDA n : \/ EircodeFullSearch(text_upper, clean(n))
                                          \/ Contains(text_upper, clean(n)))
         IN  IF hit /= 0 THEN eircode_routing[hit].area ELSE None

\* eircode_routing is the dict in its insertion order: a sequence of
\* [prefix |-> characters, area |-> name]
match_eircode(t, eircode_routing) ==
    IF t = <<>> THEN None
    ELSE LET text_upper == RemoveSpaces(UpperText(t))
             clean(n) == RemoveSpaces(UpperText(eircode_routing[n].prefix))
             full == FirstIndex(Len(eircode_routing),
                                LAMBDA n : EircodeFullSearch(text_upper, clean(n)))
             bare == FirstIndex(Len(eircode_routing),
                                LAMBDA n : Contains(text_upper, clean(n)))
         IN  IF full /= 0 THEN eircode_routing[full].area
             ELSE IF bare /= 0 THEN eircode_routing[bare].area
             ELSE None

(***************************************************************************)
(* Names (areas, routings, countries) are strings; their characters are    *)
(* looked up here where the code inspects or compares them.                *)
(***************************************************************************)
SpelledNames ==
  { [name |-> "", chars |-> <<>>],
    [name |-> "Blackrock", chars |-> <<"B","l","a","c","k","r","o","c","k">>],
    [name |-> "Cork", chars |-> <<"C","o","r","k">>],
    [name |-> "D1", chars |-> <<"D","1">>],
    [name |-> "D2", chars |-> <<"D","2">>],
    [name |-> "France", chars |-> <<"F","r","a","n","c","e">>],
    [name |-> "Galway", chars |-> <<"G","a","l","w","a","y">>],
    [name |-> "INTERNATIONAL", chars |-> <<"I","N","T","E","R","N","A","T","I","O","N","A","L">>],
    [name |-> "Ireland", chars |-> <<"I","r","e","l","a","n","d">>],
    [name |-> "Ireland Other", chars |-> <<"I","r","e","l","a","n","d"," ","O","t","h","e","r">>],
    [name |-> "LETTERSHOP", chars |-> <<"L","E","T","T","E","R","S","H","O","P">>],
    [name |-> "MADRID", chars |-> <<"M","A","D","R","I","D">>],
    [name |-> "BARCELONA", chars |-> <<"B","A","R","C","E","L","O","N","A">>],
    [name |-> "NATIONAL", chars |-> <<"N","A","T","I","O","N","A","L">>],
    [name |-> "Rest of Ireland", chars |-> <<"R","e","s","t"," ","o","f"," ","I","r","e","l","a","n","d">>],
    [name |-> "Swords", chars |-> <<"S","w","o","r","d","s">>],
    [name |-> "france", chars |-> <<"f","r","a","n","c","e">>],
    [name |-> "ireland", chars |-> <<"i","r","e","l","a","n","d">>],
    [name |-> "Dublin 1", chars |-> <<"D","u","b","l","i","n"," ","1">>],
    [name |-> "Dublin 2", chars |-> <<"D","u","b","l","i","n"," ","2">>],
    [name |-> "Dublin 3", chars |-> <<"D","u","b","l","i","n"," ","3">>],
    [name |-> "Dublin 4", chars |-> <<"D","u","b","l","i","n"," ","4">>],
    [name |-> "Dublin 5", chars |-> <<"D","u","b","l","i","n"," ","5">>],
    [name |-> "Dublin 6", chars |-> <<"D","u","b","l","i","n"," ","6">>],
    [name |-> "Dublin 6W", chars |-> <<"D","u","b","l","i","n"," ","6","W">>],
    [name |-> "Dublin 7", chars |-> <<"D","u","b","l","i","n"," ","7">>],
    [name |-> "Dublin 8", chars |-> <<"D","u","b","l","i","n"," ","8">>],
    [name |-> "Dublin 9", chars |-> <<"D","u","b","l","i","n"," ","9">>],
    [name |-> "Dublin 10", chars |-> <<"D","u","b","l","i","n"," ","1","0">>],
    [name |-> "Dublin 11", chars |-> <<"D","u","b","l","i","n"," ","1","1">>],
    [name |-> "Dublin 12", chars |-> <<"D","u","b","l","i","n"," ","1","2">>],
    [name |-> "Dublin 13", chars |-> <<"D","u","b","l","i","n"," ","1","3">>],
    [name |-> "Dublin 14", chars |-> <<"D","u","b","l","i","n"," ","1","4">>],
    [name |-> "Dublin 15", chars |-> <<"D","u","b","l","i","n"," ","1","5">>],
    [name |-> "Dublin 16", chars |-> <<"D","u","b","l","i","n"," ","1","6">>],
    [name |-> "Dublin 17", chars |-> <<"D","u","b","l","i","n"," ","1","7">>],
    [name |-> "Dublin 18", chars |-> <<"D","u","b","l","i","n"," ","1","8">>],
    [name |-> "Dublin 20", chars |-> <<"D","u","b","l","i","n"," ","2","0">>],
    [name |-> "Dublin 22", chars |-> <<"D","u","b","l","i","n"," ","2","2">>],
    [name |-> "Dublin 24", chars |-> <<"D","u","b","l","i","n"," ","2","4">>] }

Spelling == [n \in {e.name : e \in SpelledNames} |->
                (CHOOSE e \in SpelledNames : e.name = n).chars]

\* the name spelled by the characters t
NameOf(t) == (CHOOSE e \in SpelledNames : e.chars = t).name

\* the characters in the order of their code points
AsciiOrder ==
    <<"\t", "\n", " ", ",", "-", ".", "/",
      "0","1","2","3","4","5","6","7","8","9",
      "A","B","C","D","E","F","G","H","I","J","K","L","M",
      "N","O","P","Q","R","S","T","U","V","W","X","Y","Z",
      "_",
      "a","b","c","d","e","f","g","h","i","j","k","l","m",
      "n","o","p","q","r","s","t","u","v","w","x","y","z">>

CharCode == [c \in Chars |-> CHOOSE i \in 1..Len(AsciiOrder) : AsciiOrder[i] = c]

\* a < b for Python strings: by code point, a proper prefix first
RECURSIVE TextLess(_, _)
TextLess(a, b) ==
    IF b = <<>> THEN FALSE
    ELSE IF a = <<>> THEN TRUE
    ELSE IF Head(a) /= Head(b) THEN CharCode[Head(a)] < CharCode[Head(b)]
    ELSE TextLess(Tail(a), Tail(b))

StrLess(a, b) == TextLess(Spelling[a], Spelling[b])

\* str.startswith
StartsWith(t, lit) == LiteralAt(t, 1, lit, FALSE)

\* str.title(): a letter after a non-letter is upper-cased, any other
\* letter lower-cased
Title(t) ==
    [i \in 1..Len(t) |->
        IF i = 1 \/ ~IsLetter(t[i - 1]) THEN UpperChar(t[i]) ELSE LowerChar(t[i])]

\* truth value of an Optional[str]
Truthy(s) == s /= None /\ s /= ""

(***************************************************************************)
(* src/classifier.py: the Classifier                                       *)
(*                                                                         *)
(* self.config is modelled with the parts the classifier reads:            *)
(*   countries         config["countries"] in dict order, each             *)
(*                     [name, country_patterns]                            *)
(*   eircode_routing   the ireland section's dict, in dict order           *)
(*   lettershop_areas  areas.lettershop_areas.keywords                     *)
(*   national_areas    areas.national_areas.keywords                       *)
(*   ireland_other     areas.ireland_other, a dict with some of the keys   *)
(*                     "area" and "routing" (none when it is absent)       *)
(***************************************************************************)
ClassificationResult(area, routing, reason) ==
    [area |-> area, routing |-> routing, reason |-> reason]

\* self.country_handlers
country_handlers == {"ireland"}

\* _compile_country_patterns: rf"\b{re.escape(p)}\b", re.IGNORECASE
CountryPattern(p) == [lit |-> p, wb |-> TRUE]

CountryMatches(country, t) ==
    \E k \in 1..Len(country.country_patterns) :
        KeywordSearch(CountryPattern(country.country_patterns[k]), t)

\* one loop of _detect_country over self._country_regexes.items()
ScanCountries(countries, t) ==
    LET n == FirstIndex(Len(countries), LAMBDA m : CountryMatches(countries[m], t))
    IN  IF n = 0 THEN None ELSE countries[n].name

_detect_country(cfg, t, cv) ==
    LET by_column == IF cv /= <<>> THEN ScanCountries(cfg.countries, cv) ELSE None
    IN  IF by_column /= None THEN by_column ELSE ScanCountries(cfg.countries, t)

\* a lookup that yields the empty string for a missing key
DictGet_noDefault(d, k, default) == IF k \in DOMAIN d THEN d[k] ELSE ""

\* dict.get(key, default)
DictGet(d, k, default) == IF k \in DOMAIN d THEN d[k] ELSE default

\* a lookup that consults the lettershop keyword list only
_get_routing_for_area_listOnly(area, cfg) ==
    IF \E n \in 1..Len(cfg.lettershop_areas) : cfg.lettershop_areas[n].area = area
    THEN "LETTERSHOP"
    ELSE "NATIONAL"

\* Classifier._get_routing_for_area(area, country_cfg)
_get_routing_for_area(area, cfg) ==
    IF StartsWith(Spelling[area], <<"D","u","b","l","i","n"," ">>) THEN "LETTERSHOP"
    ELSE IF \E n \in 1..Len(cfg.lettershop_areas) : cfg.lettershop_areas[n].area = area
         THEN "LETTERSHOP"
    ELSE "NATIONAL"

\* _classify_ireland: the result, and the matchers it called in order
IrelandChain(cfg, t, cache) ==
    LET eircode_area    == match_eircode(t, cfg.eircode_routing)
        dublin_district == match_dublin_district(t, cache)
        lettershop_area == match_lettershop_keyword(t, cfg.lettershop_areas)
        national_area   == match_national_area(t, cfg.national_areas)
        fallback        == cfg.ireland_other
    IN  IF Truthy(eircode_area)
        THEN [result |-> ClassificationResult(
                             eircode_area, _get_routing_for_area(eircode_area, cfg), ""),
              calls  |-> <<"match_eircode">>]
        ELSE IF Truthy(dublin_district)
        THEN [result |-> ClassificationResult(dublin_district, "LETTERSHOP", ""),
              calls  |-> <<"match_eircode", "match_dublin_district">>]
        ELSE IF Truthy(lettershop_area)
        THEN [result |-> ClassificationResult(lettershop_area, "LETTERSHOP", ""),
              calls  |-> <<"match_eircode", "match_dublin_district",
                           "match_lettershop_keyword">>]
        ELSE IF Truthy(national_area)
        THEN [result |-> ClassificationResult(national_area, "NATIONAL", ""),
              calls  |-> <<"match_eircode", "match_dublin_district",
                           "match_lettershop_keyword", "match_national_area">>]
        ELSE [result |->
                 IF DOMAIN fallback /= {}
                 THEN ClassificationResult(DictGet(fallback, "area", "Ireland Other"),
                                           DictGet(fallback, "routing", "NATIONAL"), "")
                 ELSE ClassificationResult("", "", "Ireland address: no area matched"),
              calls  |-> <<"match_eircode", "match_dublin_district",
                           "match_lettershop_keyword", "match_national_area">>]

_classify_ireland(cfg, t, cache) == IrelandChain(cfg, t, cache).result

\* Classifier._classify_row without its test for an empty address
ClassifierRow_noEmptyCheck(cfg, t, cv, cache) ==
    LET country == _detect_country(cfg, t, cv)
        ireland == IrelandChain(cfg, t, cache)
    IN  IF country /= None /\ country \in country_handlers
        THEN [result |-> ireland.result, calls |-> <<"_detect_country">> \o ireland.calls]
        ELSE IF Truthy(country)
        THEN [result |-> ClassificationResult(
                             NameOf(Title(Spelling[country])), "INTERNATIONAL", ""),
              calls  |-> <<"_detect_country">>]
        ELSE [result |->
                 IF ireland.result.reason = "" /\ ireland.result.area /= "Ireland Other"
                 THEN ireland.result
                 ELSE ClassificationResult("", "", "Could not determine country or area"),
              calls  |-> <<"_detect_country">> \o ireland.calls]

\* Classifier._classify_row: the result, and what it called in order
ClassifierRow(cfg, t, cv, cache) ==
    IF Strip(t) = <<>>
    THEN [result |-> ClassificationResult("", "", "Empty address"), calls |-> <<>>]
    ELSE LET country == _detect_country(cfg, t, cv)
             ireland == IrelandChain(cfg, t, cache)
         IN  IF country /= None /\ country \in country_handlers
             THEN [result |-> ireland.result,
                   calls  |-> <<"_detect_country">> \o ireland.calls]
             ELSE IF Truthy(country)
             THEN [result |-> ClassificationResult(
                                  NameOf(Title(Spelling[country])), "INTERNATIONAL", ""),
                   calls  |-> <<"_detect_country">>]
             ELSE [result |->
                      IF ireland.result.reason = ""
                         /\ ireland.result.area /= "Ireland Other"
                      THEN ireland.result
                      ELSE ClassificationResult(
                               "", "", "Could not determine country or area"),
                   calls  |-> <<"_detect_country">> \o ireland.calls]

Classifier_classify_row(cfg, t, cv, cache) == ClassifierRow(cfg, t, cv, cache).result

\* the memoized district table after the row: match_dublin_district builds
\* it when it is called with a non-empty text
CacheAfterRow(cfg, t, cv, cache) ==
    LET called == ClassifierRow(cfg, t, cv, cache).calls
    IN  IF \E k \in 1..Len(called) : called[k] = "match_dublin_district"
        THEN build_dublin_patterns(cache) ELSE cache

(***************************************************************************)
(* src/spain_classifier.py, src/spain.py: the SpainClassifier              *)
(*                                                                         *)
(* A postcode is a text of five digits; the empty text stands for the      *)
(* None the extractors return.  The value of the mapped postcode column    *)
(* is [mapped, isna, raw]: whether col_map.postcode is set, whether the    *)
(* cell is missing, and str() of the cell.                                 *)
(***************************************************************************)
\* _POSTCODE_RE = \b(\d{5})\b stands in t at position i
PostcodeAt(t, i) ==
    /\ WordBoundary(t, i)
    /\ i + 4 <= Len(t)
    /\ \A k \in 0..4 : IsDigit(t[i + k])
    /\ WordBoundary(t, i + 5)

\* _POSTCODE_RE.search(t): group 1 of the leftmost match
PostcodeSearch(t) ==
    LET i == FirstIndex(Len(t), LAMBDA n : PostcodeAt(t, n))
    IN  IF i = 0 THEN <<>> ELSE SubSeq(t, i, i + 4)

\* str.isdigit()
IsDigitText(t) == t /= <<>> /\ \A k \in 1..Len(t) : IsDigit(t[k])

\* str.zfill(width) of a text of digits
ZFill(t, width) ==
    IF Len(t) >= width THEN t
    ELSE [i \in 1..width |-> IF i <= width - Len(t) THEN "0"
                             ELSE t[i - (width - Len(t))]]

\* an extractor that does not pad
_extract_postcode_from_column_unpadded(pc) ==
    IF ~pc.mapped THEN <<>>
    ELSE IF pc.isna THEN <<>>
    ELSE PostcodeSearch(Strip(pc.raw))

\* SpainClassifier._extract_postcode_from_column(row, col_map)
_extract_postcode_from_column(pc) ==
    IF ~pc.mapped THEN <<>>
    ELSE IF pc.isna THEN <<>>
    ELSE LET stripped == Strip(pc.raw)
             padded   == IF IsDigitText(stripped) THEN ZFill(stripped, 5) ELSE stripped
         IN  PostcodeSearch(padded)

_extract_postcode_from_text(t) ==
    IF Strip(t) = <<>> THEN <<>> ELSE PostcodeSearch(t)

\* d1_mapping.get(postcode)
match_d1_postal_code(postcode, d1) ==
    IF postcode \in DOMAIN d1 THEN d1[postcode] ELSE None

\* SpainClassifier._classify_row: the result, and what it called in order
SpainRow(d1, t, pc) ==
    LET from_column == _extract_postcode_from_column(pc)
        postcode    == IF from_column = <<>>
                       THEN _extract_postcode_from_text(t) ELSE from_column
        extractors  == IF from_column = <<>>
                       THEN <<"_extract_postcode_from_column",
                              "_extract_postcode_from_text">>
                       ELSE <<"_extract_postcode_from_column">>
        locality    == match_d1_postal_code(postcode, d1)
    IN  IF postcode = <<>>
        THEN [result |-> ClassificationResult(
                             "", "", "No valid 5-digit postal code found"),
              calls  |-> extractors]
        ELSE [result |-> IF Truthy(locality)
                         THEN ClassificationResult(locality, "D1", "")
                         ELSE ClassificationResult("D2", "D2", ""),
              calls  |-> extractors \o <<"match_d1_postal_code">>]

SpainClassifier_classify_row(d1, t, pc) == SpainRow(d1, t, pc).result

(***************************************************************************)
(* src/detect_columns.py                                                   *)
(***************************************************************************)
LOGICAL_FIELDS ==
    <<"address_line_1", "address_line_2", "address_line_3",
      "city", "county", "postcode", "country">>

\* FUZZY_THRESHOLD = 0.75, as the fraction ThresholdNum / ThresholdDen
ThresholdNum == 3

ThresholdDen == 4

\* str.replace for single characters
ReplaceChar(t, from, to) == [i \in 1..Len(t) |-> IF t[i] = from THEN to ELSE t[i]]

\* " ".join(t.split()): whitespace runs collapsed to one space, none at
\* the ends
RECURSIVE JoinSplit(_)
JoinSplit(t) ==
    LET s == LStrip(t)
        e == SkipClass(s, 1, Chars \ SpaceChars)
        rest == LStrip(SubSeq(s, e, Len(s)))
    IN  IF s = <<>> THEN <<>>
        ELSE IF rest = <<>> THEN SubSeq(s, 1, e - 1)
        ELSE SubSeq(s, 1, e - 1) \o <<" ">> \o JoinSplit(rest)

_normalize_simple(name) ==
    JoinSplit(ReplaceChar(ReplaceChar(Strip(LowerText(name)), "_", " "), "-", " "))

\* length of the common run of a from i and b from j, inside a[..ahi], b[..bhi]
RECURSIVE RunLen(_, _, _, _, _, _)
RunLen(a, i, ahi, b, j, bhi) ==
    IF i <= ahi /\ j <= bhi /\ a[i] = b[j]
    THEN 1 + RunLen(a, i + 1, ahi, b, j + 1, bhi) ELSE 0

\* SequenceMatcher.find_longest_match(alo, ahi, b, blo, bhi): the longest
\* matching block, the earliest in a and then in b among the longest
\* (bounds inclusive here; no junk: isjunk is None and the texts are
\* shorter than the 200 elements at which autojunk starts)
LongestMatch(a, alo, ahi, b, blo, bhi) ==
    LET cands == {<<i, j>> \in (alo..ahi) \X (blo..bhi) : a[i] = b[j]}
        size(c) == RunLen(a, c[1], ahi, b, c[2], bhi)
        best == CHOOSE c \in cands :
                  \A d \in cands :
                     \/ size(c) > size(d)
                     \/ /\ size(c) = size(d)
                        /\ \/ c[1] < d[1]
                           \/ c[1] = d[1] /\ c[2] <= d[2]
    IN  IF cands = {} THEN <<alo, blo, 0>> ELSE <<best[1], best[2], size(best)>>

\* the total size of SequenceMatcher.get_matching_blocks(): the longest
\* block, then recursively the pieces to its left and to its right
RECURSIVE MatchingSize(_, _, _, _, _, _)
MatchingSize(a, alo, ahi, b, blo, bhi) ==
    IF alo > ahi \/ blo > bhi THEN 0
    ELSE LET m == LongestMatch(a, alo, ahi, b, blo, bhi)
         IN  IF m[3] = 0 THEN 0
             ELSE m[3]
                  + MatchingSize(a, alo, m[1] - 1, b, blo, m[2] - 1)
                  + MatchingSize(a, m[1] + m[3], ahi, b, m[2] + m[3], bhi)

\* SequenceMatcher(None, a, b).ratio() = 2.0 * matches / (len(a) + len(b)),
\* 1.0 when both are empty; kept as the fraction <<numerator, denominator>>
Ratio(a, b) ==
    IF Len(a) + Len(b) = 0 THEN <<1, 1>>
    ELSE <<2 * MatchingSize(a, 1, Len(a), b, 1, Len(b)), Len(a) + Len(b)>>

FracGreater(x, y) == x[1] * y[2] > y[1] * x[2]

FracAtLeast(x, y) == x[1] * y[2] >= y[1] * x[2]

\* the first column of cols (in iteration order) satisfying P, as a
\* sequence of zero (None) or one element
FirstCol(cols, P(_)) ==
    IF \E n \in 1..Len(cols) : P(cols[n])
    THEN <<cols[CHOOSE n \in 1..Len(cols) :
                  P(cols[n]) /\ \A m \in 1..(n - 1) : ~P(cols[m])]>>
    ELSE <<>>

ExactEq(alias, col) == Strip(LowerText(col)) = Strip(LowerText(alias))

NormEq(alias, col) == _normalize_simple(col) = _normalize_simple(alias)

\* _exact_match: aliases in order, for each the columns in iteration order
RECURSIVE _exact_match(_, _)
_exact_match(field_aliases, avail) ==
    IF field_aliases = <<>> THEN <<>>
    ELSE LET hit == FirstCol(avail, LAMBDA col : ExactEq(Head(field_aliases), col))
         IN  IF hit /= <<>> THEN hit ELSE _exact_match(Tail(field_aliases), avail)

RECURSIVE _normalized_match(_, _)
_normalized_match(field_aliases, avail) ==
    IF field_aliases = <<>> THEN <<>>
    ELSE LET hit == FirstCol(avail, LAMBDA col : NormEq(Head(field_aliases), col))
         IN  IF hit /= <<>> THEN hit ELSE _normalized_match(Tail(field_aliases), avail)

\* the double loop of _fuzzy_match from alias number a and column number c
\* on, carrying best_score and best_col
RECURSIVE FuzzyLoop(_, _, _, _, _, _)
FuzzyLoop(field_aliases, avail, a, c, best_score, best_col) ==
    IF a > Len(field_aliases) THEN best_col
    ELSE IF c > Len(avail)
         THEN FuzzyLoop(field_aliases, avail, a + 1, 1, best_score, best_col)
    ELSE LET score == Ratio(_normalize_simple(field_aliases[a]),
                            _normalize_simple(avail[c]))
         IN  IF /\ FracGreater(score, best_score)
                /\ FracAtLeast(score, <<ThresholdNum, ThresholdDen>>)
             THEN FuzzyLoop(field_aliases, avail, a, c + 1, score, <<avail[c]>>)
             ELSE FuzzyLoop(field_aliases, avail, a, c + 1, best_score, best_col)

_fuzzy_match(field_aliases, avail) ==
    FuzzyLoop(field_aliases, avail, 1, 1, <<0, 1>>, <<>>)

\* aliases.get(field_name, [])
AliasesOf(table, field_name) ==
    IF field_name \in DOMAIN table THEN table[field_name] ELSE <<>>

\* a detector that leaves a claimed column in the pool
Discard_keep(avail, col) == avail

\* _exact_match falling through to the fuzzy comparison for the same
\* field: the passes run field by field instead of pass by pass
_exact_match_then_fuzzy(field_aliases, avail) ==
    IF _exact_match(field_aliases, avail) /= <<>>
    THEN _exact_match(field_aliases, avail)
    ELSE _fuzzy_match(field_aliases, avail)

\* _exact_match as the detector calls it
ExactPass(field_aliases, avail) == _exact_match(field_aliases, avail)

\* available.discard(matched)
Discard(avail, col) == SelectSeq(avail, LAMBDA x : x /= col)

\* mapping[field_name] = matched
SetItem(m, field_name, col) ==
    [g \in DOMAIN m \cup {field_name} |-> IF g = field_name THEN col ELSE m[g]]

Range(s) == {s[n] : n \in 1..Len(s)}

MatchOfPass(p, field_aliases, avail) ==
    CASE p = 1 -> ExactPass(field_aliases, avail)
      [] p = 2 -> _normalized_match(field_aliases, avail)
      [] OTHER -> _fuzzy_match(field_aliases, avail)

\* one iteration of the loop of pass p over LOGICAL_FIELDS
PassStep(p) ==
    /\ outcome = "running"
    /\ pass = p
    /\ field_idx <= Len(LOGICAL_FIELDS)
    /\ LET field_name == LOGICAL_FIELDS[field_idx]
           matched == MatchOfPass(p, AliasesOf(aliases, field_name), available)
       IN  IF field_name \in DOMAIN mapping \/ matched = <<>>
           THEN UNCHANGED <<mapping, available>>
           ELSE /\ mapping' = SetItem(mapping, field_name, matched[1])
                /\ available' = Discard(available, matched[1])
    /\ IF field_idx = Len(LOGICAL_FIELDS) /\ p < 3
       THEN pass' = p + 1 /\ field_idx' = 1
       ELSE pass' = p /\ field_idx' = field_idx + 1
    /\ UNCHANGED <<actual_columns, aliases, outcome, col_map>>
    /\ UNCHANGED <<districtVars, engineVars, rowVars, tableVars, editVars, matchVars, workerVars>>

ExactPassStep == PassStep(1)

NormalizedPassStep == PassStep(2)

FuzzyPassStep == PassStep(3)

\* a detector that insists on a first address line
RaisesDetectionError_noAddress(m) == "address_line_1" \notin DOMAIN m

\* the end of detect_columns: `if not mapping: raise ColumnDetectionError`
RaisesDetectionError(m) == DOMAIN m = {}

\* ColumnMapping(**mapping): every logical field, None (here <<>>) when
\* the field is not a key of mapping
ColumnMapping(m) ==
    [f \in Range(LOGICAL_FIELDS) |-> IF f \in DOMAIN m THEN <<m[f]>> ELSE <<>>]

DetectFinish ==
    /\ outcome = "running"
    /\ pass = 3
    /\ field_idx > Len(LOGICAL_FIELDS)
    /\ IF RaisesDetectionError(mapping)
       THEN outcome' = "ColumnDetectionError" /\ col_map' = col_map
       ELSE outcome' = "returned" /\ col_map' = ColumnMapping(mapping)
    /\ UNCHANGED <<actual_columns, aliases, available, mapping, pass, field_idx>>
    /\ UNCHANGED <<districtVars, engineVars, rowVars, tableVars, editVars, matchVars, workerVars>>

(***************************************************************************)
(* Specification of detect_columns: the column names are drawn from a few  *)
(* headers, the alias table from a few tables (config/columns.yaml is      *)
(* data), and the iteration order of the set of available columns is any   *)
(* permutation of the names.                                               *)
(***************************************************************************)
MaxCols == 3

ColumnNames ==
    << <<"C","o","u","n","t","r","y">>, <<"C","O","U","N","T","R","Y">>, <<"C","o","u","n","t","y">>, <<"p","o","s","t","_","c","o","d","e">>, <<"N","a","m","e">>, <<" ","C","i","t","y">> >>

AliasTables ==
    { [address_line_1 |-> << <<"a","d","d","r","e","s","s">> >>,
       city |-> << <<"c","i","t","y">>, <<"t","o","w","n">> >>,
       county |-> << <<"c","o","u","n","t","y">> >>,
       postcode |-> << <<"p","o","s","t","c","o","d","e">>, <<"p","o","s","t"," ","c","o","d","e">> >>,
       country |-> << <<"c","o","u","n","t","r","y">> >>],
      [postcode |-> << <<"p","o","s","t","c","o","d","e">> >>,
       country |-> << <<"c","o","u","n","t","r","y">> >>],
      [county |-> << <<"c","o","u","n","t","y">>, <<"c","o","u","n","t","r","y">> >>,
       country |-> << <<"c","o","u","n","t","r","y">> >>] }

\* the lists of distinct names, in the order of ColumnNames
ColumnLists ==
    {SelectSeq(ColumnNames, LAMBDA n : n \in S) :
        S \in {X \in SUBSET Range(ColumnNames) : Cardinality(X) <= MaxCols}}

IterationOrders(S) ==
    {p \in [1..Cardinality(S) -> S] : \A i, j \in 1..Cardinality(S) : p[i] = p[j] => i = j}

DetectInit ==
    /\ actual_columns \in ColumnLists
    /\ aliases \in AliasTables
    /\ available \in IterationOrders(Range(actual_columns))
    /\ mapping = <<>>
    /\ pass = 1
    /\ field_idx = 1
    /\ outcome = "running"
    /\ col_map = <<>>

\* detect_columns is not running
DetectNotRunning ==
    /\ actual_columns = <<>>
    /\ aliases = <<>>
    /\ available = <<>>
    /\ mapping = <<>>
    /\ pass = 0
    /\ field_idx = 0
    /\ outcome = "idle"

DetectIdle ==
    /\ DetectNotRunning
    /\ col_map = <<>>

DistrictIdle ==
    /\ text = <<>>
    /\ district_patterns = <<>>
    /\ district = None
    /\ dpc = "idle"

\* no configuration file is being loaded
LoadIdle ==
    /\ rules_file = None
    /\ columns_file = None
    /\ engine = None
    /\ raised = ""
    /\ lpc = "idle"

\* no classifier is constructed
EngineIdle ==
    /\ profile = "idle"
    /\ config = <<>>
    /\ d1_mapping = <<>>
    /\ LoadIdle

NoResult == [area |-> None, routing |-> None, reason |-> None]

NoCell == [mapped |-> FALSE, isna |-> TRUE, raw |-> <<>>]

\* no row is being classified
RowIdle ==
    /\ combined = <<>>
    /\ country_val = <<>>
    /\ pc_col = NoCell
    /\ result = NoResult
    /\ calls = <<>>
    /\ rpc = "idle"

\* PipelineStats() with its defaults
NoStats ==
    [total_rows |-> 0, classified_rows |-> 0, exception_rows |-> 0,
     area_counts |-> <<>>, routing_counts |-> <<>>]

\* no table is being classified
NoTable == [columns |-> <<>>, rows |-> <<>>]

TableIdle ==
    /\ df_in = NoTable
    /\ df = NoTable
    /\ results = <<>>
    /\ df_classified = NoTable
    /\ df_exceptions = NoTable
    /\ stats = NoStats
    /\ cpc = "idle"

\* no save has been called
NoSave ==
    [data |-> [type |-> "NoneType", keys |-> {}, countries_is_dict |-> FALSE,
               config |-> <<>>],
     backup_path |-> <<>>, errors |-> <<>>]

\* no configuration is being edited
EditIdle ==
    /\ now = 0
    /\ backups = <<>>
    /\ save_result = NoSave
    /\ saves = <<>>
    /\ rules_versions = <<>>
    /\ engines = <<>>
    /\ used = 0

\* match_eircode is not being called
MatchIdle ==
    /\ eircode_text = <<>>
    /\ routing_table = <<>>
    /\ matched_area = None
    /\ epc = "idle"

\* no worker is running
WorkersIdle ==
    /\ worker_text = <<>>
    /\ worker_pc = <<>>
    /\ local_patterns = <<>>
    /\ worker_label = <<>>

DetectNext ==
    \/ ExactPassStep
    \/ NormalizedPassStep
    \/ FuzzyPassStep
    \/ DetectFinish

DetectSpecInit ==
    /\ DetectInit
    /\ DistrictIdle
    /\ EngineIdle
    /\ RowIdle
    /\ TableIdle
    /\ EditIdle
    /\ MatchIdle
    /\ WorkersIdle

SpecDetect == DetectSpecInit /\ [][DetectNext]_vars

(***************************************************************************)
(* Specification of the district matcher: a text is drawn from the         *)
(* concatenations of a few chunks and match_dublin_district is called.     *)
(***************************************************************************)
MaxChunks == 5

DistrictChunks ==
    { <<"D","u","b","l","i","n">>, <<" ">>, <<"1">>, <<"0">>, <<"2">>, <<"6">>, <<"W">> }

DistrictTexts == {Flatten(cs) : cs \in SeqsUpTo(DistrictChunks, MaxChunks)}

DistrictInit ==
    /\ text \in DistrictTexts
    /\ district_patterns = <<>>
    /\ district = None
    /\ dpc = "start"

MatchDublinDistrict ==
    /\ dpc = "start"
    /\ district' = match_dublin_district(text, district_patterns)
    /\ district_patterns' = IF text = <<>> THEN district_patterns
                            ELSE build_dublin_patterns(district_patterns)
    /\ dpc' = "done"
    /\ UNCHANGED text
    /\ UNCHANGED <<detectVars, engineVars, rowVars, tableVars, editVars, matchVars, workerVars>>

DistrictNext == MatchDublinDistrict

DistrictSpecInit ==
    /\ DistrictInit
    /\ DetectIdle
    /\ EngineIdle
    /\ RowIdle
    /\ TableIdle
    /\ EditIdle
    /\ MatchIdle
    /\ WorkersIdle

SpecDistrict == DistrictSpecInit /\ [][DistrictNext]_vars

(***************************************************************************)
(* Claims about match_dublin_district                                      *)
(***************************************************************************)
\* positions of t where "dublin" (any case) stands, followed by s
\* separator characters and then by the literal lit
RefAt(t, i, s, lit) ==
    /\ LiteralAt(t, i, DublinWord, TRUE)
    /\ i + 5 + s <= Len(t)
    /\ \A k \in (i + 6)..(i + 5 + s) : t[k] \in SepChars
    /\ LiteralAt(t, i + 6 + s, lit, TRUE)

CharAfter(t, e) == IF e <= Len(t) THEN t[e] ELSE None

TwoDigitDistricts ==
    {DUBLIN_DISTRICTS[n] : n \in {m \in 1..Len(DUBLIN_DISTRICTS) :
        Len(DUBLIN_DISTRICTS[m].id) = 2 /\ IsDigit(DUBLIN_DISTRICTS[m].id[2])}}

\* the two-digit districts NN for which t holds "Dublin" + separator + NN
\* with no further digit after NN
TwoDigitRefs(t) ==
    {d \in TwoDigitDistricts :
        \E i \in 1..Len(t), s \in 0..Len(t) :
            /\ RefAt(t, i, s, d.id)
            /\ ~IsDigit(CharAfter(t, i + 6 + s + 2))}

OneDigitLabel(d) ==
    (CHOOSE o \in {DUBLIN_DISTRICTS[n] : n \in 1..Len(DUBLIN_DISTRICTS)} :
        o.id = <<d.id[1]>>).label

\* C4: when the text holds "Dublin" + optional separator + NN for a
\* two-digit district NN that no digit follows, match_dublin_district
\* returns the label of a two-digit district present in the text, never the
\* one-digit district that is the first digit of NN.
C4_TwoDigitDistrictWins ==
    (dpc = "done" /\ TwoDigitRefs(text) /= {}) =>
        /\ district \in {d.label : d \in TwoDigitRefs(text)}
        /\ \A d \in TwoDigitRefs(text) : district /= OneDigitLabel(d)

\* a text that holds both "Dublin 1" + non-digit and "Dublin 10" is
\* resolved to "Dublin 10"
C4_Witness ==
    /\ dpc = "done"
    /\ \E i \in 1..Len(text), s \in 0..Len(text) :
          /\ RefAt(text, i, s, <<"1">>)
          /\ ~IsDigit(CharAfter(text, i + 6 + s + 1))
    /\ \E d \in TwoDigitRefs(text) : d.label = "Dublin 10"
    /\ district = "Dublin 10"

\* the start positions of the district references of t: "dublin",
\* separators, then a digit
DistrictRefs(t) ==
    {i \in 1..Len(t) :
        \E s \in 0..Len(t) : \E c \in DigitChars : RefAt(t, i, s, <<c>>)}

\* the only district reference of t is "Dublin" + separator + "6W"
Only6WRef(t) ==
    /\ Cardinality(DistrictRefs(t)) = 1
    /\ \E i \in DistrictRefs(t), s \in 0..Len(t) : RefAt(t, i, s, <<"6","w">>)

\* the only district reference of t is "Dublin" + separator + "6", the 6
\* followed neither by a digit nor by W
Only6Ref(t) ==
    /\ Cardinality(DistrictRefs(t)) = 1
    /\ \E i \in DistrictRefs(t), s \in 0..Len(t) :
          /\ RefAt(t, i, s, <<"6">>)
          /\ ~IsDigit(CharAfter(t, i + 6 + s + 1))
          /\ CharAfter(t, i + 6 + s + 1) \notin {"w", "W"}

SixThenW(t, e) ==
    \E w \in 0..Len(t) :
        /\ e + w <= Len(t)
        /\ \A k \in e..(e + w - 1) : IsSpace(t[k])
        /\ t[e + w] \in {"w", "W"}
        /\ ~IsLetter(CharAfter(t, e + w + 1))

FieldIndex(f) == CHOOSE k \in 1..Len(LOGICAL_FIELDS) : LOGICAL_FIELDS[k] = f

HigherFields(f) == {LOGICAL_FIELDS[k] : k \in 1..(FieldIndex(f) - 1)}

\* column c equals an alias of field f, case-insensitively and trimmed
ExactlyMatches(c, f) ==
    \E n \in 1..Len(AliasesOf(aliases, f)) : ExactEq(AliasesOf(aliases, f)[n], c)

\* c exactly matches an alias of f and no alias of a higher-priority field
ExactOnlyFor(c, f) ==
    /\ c \in Range(actual_columns)
    /\ ExactlyMatches(c, f)
    /\ \A g \in HigherFields(f) : ~ExactlyMatches(c, g)

Assigned(c) == \E f \in DOMAIN mapping : mapping[f] = c

\* the exact pass has gone past field f
ExactDone(f) ==
    /\ outcome /= "idle"
    /\ pass > 1 \/ (pass = 1 /\ field_idx > FieldIndex(f))

CountryCountyCase ==
    /\ Range(actual_columns) = { <<"C","o","u","n","t","r","y">>, <<"C","o","u","n","t","y">> }
    /\ AliasesOf(aliases, "country") = << <<"c","o","u","n","t","r","y">> >>
    /\ AliasesOf(aliases, "county") = << <<"c","o","u","n","t","y">> >>

CountryCountyResolved ==
    (CountryCountyCase /\ outcome = "returned") =>
        /\ col_map["country"] = << <<"C","o","u","n","t","r","y">> >>
        /\ col_map["county"] = << <<"C","o","u","n","t","y">> >>

\* C7 as stated: a column that exactly matches an alias of F and of no
\* higher-priority field is assigned to F, or F took another exact match;
\* it is never taken for a higher-priority field G (which, matching no
\* alias of G exactly, could only be by normalized or fuzzy matching).
\* With columns Country and County, country gets Country and county County.
C7_Original ==
    /\ outcome = "returned" =>
          \A f \in Range(LOGICAL_FIELDS) : \A c \in Range(actual_columns) :
              ExactOnlyFor(c, f) =>
                  /\ f \in DOMAIN mapping
                  /\ ExactlyMatches(mapping[f], f)
                  /\ \A g \in HigherFields(f) :
                        ~(g \in DOMAIN mapping /\ mapping[g] = c)
    /\ CountryCountyResolved

\* C7 amended: the exact pass covers all fields before any normalized or
\* fuzzy match is made (while the exact pass runs every mapped column
\* exactly matches an alias of its field); a column that exactly matches an
\* alias of F and of no higher-priority field makes F mapped in the exact
\* pass to a column that exactly matches one of F's aliases, and to that
\* very column when no other given column exactly matches an alias of F.
\* With columns Country and County, country gets Country and county County.
C7_ExactPassFirst ==
    /\ (outcome /= "idle" /\ pass = 1) =>
          \A f \in DOMAIN mapping : ExactlyMatches(mapping[f], f)
    /\ \A f \in Range(LOGICAL_FIELDS) : \A c \in Range(actual_columns) :
          (ExactOnlyFor(c, f) /\ ExactDone(f)) =>
              /\ f \in DOMAIN mapping
              /\ ExactlyMatches(mapping[f], f)
              /\ (\A d \in Range(actual_columns) : ExactlyMatches(d, f) => d = c)
                    => mapping[f] = c
    /\ CountryCountyResolved

\* detect_columns returned for the columns Country and County, and a
\* fuzzy candidate (County for country) was passed over
C7_Witness ==
    /\ CountryCountyCase
    /\ outcome = "returned"
    /\ FracAtLeast(Ratio(_normalize_simple(<< <<"c","o","u","n","t","r","y">> >>[1]),
                         _normalize_simple(<< <<"C","o","u","n","t","y">> >>[1])),
                   <<ThresholdNum, ThresholdDen>>)
    /\ col_map["country"] = << <<"C","o","u","n","t","r","y">> >>

C8_Inv ==
    outcome /= "idle" =>
        /\ \A f \in DOMAIN mapping : mapping[f] \in Range(actual_columns)
        /\ \A f, g \in DOMAIN mapping : mapping[f] = mapping[g] => f = g
        /\ \A f \in DOMAIN mapping : mapping[f] \notin Range(available)
        /\ outcome = "returned" =>
              \A f, g \in Range(LOGICAL_FIELDS) :
                  /\ col_map[f] /= <<>> => col_map[f][1] \in Range(actual_columns)
                  /\ (col_map[f] /= <<>> /\ col_map[f] = col_map[g]) => f = g

C8_Step ==
    /\ \A f \in DOMAIN mapping : f \in DOMAIN mapping' /\ mapping'[f] = mapping[f]
    /\ Range(available') \subseteq Range(available)

\* C8: every mapped value is a given column name, no column is assigned to
\* two fields, a claimed column is out of the pool for every later field
\* and pass, and a mapped field is never remapped.
C8_NoDoubleClaim == [](C8_Inv) /\ [][C8_Step]_vars

\* a detection that mapped fields in the exact pass and another one in a
\* later pass has returned
C8_Witness ==
    /\ outcome = "returned"
    /\ Cardinality(DOMAIN mapping) >= 2
    /\ \E f \in DOMAIN mapping : ~ExactlyMatches(mapping[f], f)

\* some pass can map field f: a given column matches one of its aliases
\* exactly, after normalization, or with a ratio of at least the threshold
CouldMap(f) ==
    \E n \in 1..Len(AliasesOf(aliases, f)) : \E c \in Range(actual_columns) :
        \/ ExactEq(AliasesOf(aliases, f)[n], c)
        \/ NormEq(AliasesOf(aliases, f)[n], c)
        \/ FracAtLeast(Ratio(_normalize_simple(AliasesOf(aliases, f)[n]),
                             _normalize_simple(c)),
                       <<ThresholdNum, ThresholdDen>>)

\* C9: detect_columns raises ColumnDetectionError exactly when no pass can
\* map any of the seven fields; otherwise it returns a ColumnMapping in
\* which exactly the unmapped fields are absent.
C9_ErrorIffNothingMapped ==
    /\ outcome = "ColumnDetectionError" =>
          /\ \A f \in Range(LOGICAL_FIELDS) : ~CouldMap(f)
          /\ col_map = <<>>
    /\ outcome = "returned" =>
          /\ \E f \in Range(LOGICAL_FIELDS) : CouldMap(f)
          /\ \A f \in Range(LOGICAL_FIELDS) :
                IF f \in DOMAIN mapping
                THEN col_map[f] = <<mapping[f]>> ELSE col_map[f] = <<>>
          /\ \E f \in Range(LOGICAL_FIELDS) : col_map[f] /= <<>>

\* a ColumnMapping with a single mapped field, not the first address
\* line, has been returned
C9_Witness ==
    /\ outcome = "returned"
    /\ Cardinality({f \in Range(LOGICAL_FIELDS) : col_map[f] /= <<>>}) = 1
    /\ col_map["address_line_1"] = <<>>
    /\ Len(actual_columns) >= 2

(***************************************************************************)
(* Specification of the classification of one row: a classifier is         *)
(* constructed from one of a few configurations and its _classify_row is   *)
(* called on a row drawn from the concatenations of a few chunks.          *)
(***************************************************************************)
MaxParts == 3

\* a rules.yaml in the shape of the shipped one
BaseConfig ==
    [countries |->
        << [name |-> "ireland", country_patterns |-> << <<"i","r","e","l","a","n","d">> >>],
           [name |-> "france",  country_patterns |-> << <<"f","r","a","n","c","e">> >>] >>,
     eircode_routing |->
        << [prefix |-> <<"D","0","2">>, area |-> "Dublin 2"],
           [prefix |-> <<"T","1","2">>, area |-> "Cork"] >>,
     lettershop_areas |->
        << [area |-> "Blackrock", patterns |-> << [lit |-> <<"b","l","a","c","k","r","o","c","k">>, wb |-> FALSE] >>],
           [area |-> "Swords",    patterns |-> << [lit |-> <<"s","w","o","r","d","s">>, wb |-> FALSE] >>] >>,
     national_areas |->
        << [area |-> "Cork",   patterns |-> << [lit |-> <<"c","o","r","k">>, wb |-> TRUE] >>],
           [area |-> "Galway", patterns |-> << [lit |-> <<"g","a","l","w","a","y">>, wb |-> TRUE],
                                               [lit |-> <<"r","o","c","k">>, wb |-> FALSE] >>] >>,
     ireland_other |-> [area |-> "Ireland Other", routing |-> "NATIONAL"]]

\* the dict {}
EmptyDict == [k \in {} |-> ""]

\* configurations the constructor accepts (it only requires the key
\* "countries"): without a fallback, with a fallback label of its own, with
\* a fallback whose area or routing is the empty string, with an Eircode
\* prefix or a keyword entry whose area is the empty string, with an Eircode
\* prefix routed to a lettershop area and to an area of no keyword list
RuleConfigs ==
    { BaseConfig,
      [BaseConfig EXCEPT !.ireland_other = [area |-> "Rest of Ireland"]],
      [BaseConfig EXCEPT !.ireland_other = EmptyDict],
      [BaseConfig EXCEPT !.ireland_other = [area |-> "", routing |-> "NATIONAL"]],
      [BaseConfig EXCEPT !.ireland_other = [routing |-> ""]],
      [BaseConfig EXCEPT !.eircode_routing[1].area = ""],
      [BaseConfig EXCEPT !.lettershop_areas[1].area = ""],
      [BaseConfig EXCEPT !.eircode_routing[2].area = "Swords"],
      [BaseConfig EXCEPT !.eircode_routing[2].area = "Rest of Ireland"] }

IrelandChunks ==
    { <<"D","0","2"," ","Y","X","8","8">>, <<"T","1","2">>, <<"D","u","b","l","i","n"," ","4">>, <<"S","w","o","r","d","s">>, <<"B","l","a","c","k","r","o","c","k">>, <<"C","o","r","k">>,
      <<"I","r","e","l","a","n","d">>, <<"P","a","r","i","s">>, <<" ">> }

IrelandTexts == {Flatten(cs) : cs \in SeqsUpTo(IrelandChunks, MaxParts)}

CountryValues == { <<>>, <<"I","r","e","l","a","n","d">>, <<"F","r","a","n","c","e">> }

\* two spain_d1.yaml tables: the second has a locality with an empty name
D1Entries ==
    { [code |-> <<"2","8","0","0","1">>, locality |-> "MADRID"],
      [code |-> <<"0","8","0","0","1">>, locality |-> "BARCELONA"],
      [code |-> <<"0","1","0","0","1">>, locality |-> ""] }

D1Tables ==
    { {e \in D1Entries : e.locality /= ""}, D1Entries }

D1Mappings ==
    { [c \in {e.code : e \in tbl} |-> (CHOOSE e \in tbl : e.code = c).locality] :
        tbl \in D1Tables }

SpainChunks == { <<"2","8","0","0","1">>, <<"1","0","0","1">>, <<"9","9","9","9","9">>, <<"C","a","l","l","e">>, <<" ">> }

SpainTexts == {Flatten(cs) : cs \in SeqsUpTo(SpainChunks, MaxParts)}

PostcodeCells ==
    { NoCell, [mapped |-> TRUE, isna |-> TRUE, raw |-> <<>>] }
    \cup { [mapped |-> TRUE, isna |-> FALSE, raw |-> r] :
             r \in { <<>>, <<"2","8","0","0","1">>, <<"1","0","0","1">>, <<" ","0","8","0","0","1"," ">>, <<"2","8","0","0","1",".","0">>, <<"a","b","c">>,
                     <<"E","-","0","8","0","0","1">>, <<"C","P","0","8","0","0","1">>, <<"1","2","3","4","5","6">> } }

RowInit ==
    /\ profile \in {"ireland", "spain"}
    /\ IF profile = "ireland"
       THEN /\ config \in RuleConfigs
            /\ d1_mapping = <<>>
            /\ combined \in IrelandTexts
            /\ country_val \in CountryValues
            /\ pc_col = NoCell
       ELSE /\ config = <<>>
            /\ d1_mapping \in D1Mappings
            /\ combined \in SpainTexts
            /\ country_val = <<>>
            /\ pc_col \in PostcodeCells
    /\ result = NoResult
    /\ calls = <<>>
    /\ rpc = "start"

\* Classifier._classify_row(combined, country_val)
ClassifyRowIreland ==
    /\ rpc = "start"
    /\ profile = "ireland"
    /\ result' = Classifier_classify_row(config, combined, country_val, district_patterns)
    /\ calls' = ClassifierRow(config, combined, country_val, district_patterns).calls
    /\ district_patterns' = CacheAfterRow(config, combined, country_val, district_patterns)
    /\ rpc' = "done"
    /\ UNCHANGED <<text, district, dpc>>
    /\ UNCHANGED <<combined, country_val, pc_col>>
    /\ UNCHANGED <<detectVars, engineVars, tableVars, editVars, matchVars, workerVars>>

\* SpainClassifier._classify_row(row, col_map)
ClassifyRowSpain ==
    /\ rpc = "start"
    /\ profile = "spain"
    /\ result' = SpainClassifier_classify_row(d1_mapping, combined, pc_col)
    /\ calls' = SpainRow(d1_mapping, combined, pc_col).calls
    /\ rpc' = "done"
    /\ UNCHANGED <<combined, country_val, pc_col>>
    /\ UNCHANGED <<districtVars, detectVars, engineVars,
                   tableVars, editVars, matchVars, workerVars>>

RowNext ==
    \/ ClassifyRowIreland
    \/ ClassifyRowSpain

RowSpecInit ==
    /\ RowInit
    /\ LoadIdle
    /\ DistrictIdle
    /\ DetectIdle
    /\ TableIdle
    /\ EditIdle
    /\ MatchIdle
    /\ WorkersIdle

SpecRow == RowSpecInit /\ [][RowNext]_vars

(***************************************************************************)
(* Claims about the classification of one row                              *)
(***************************************************************************)
\* the row has been classified
RowDone == rpc = "done"

\* the combined address is blank or whitespace-only
BlankAddress == Strip(combined) = <<>>

\* C2: every ClassificationResult of Classifier._classify_row and of
\* SpainClassifier._classify_row, for any configuration the constructor
\* accepts, has either area and routing non-empty and reason empty, or
\* reason non-empty and area and routing empty.
C2_MutualExclusivity ==
    RowDone =>
        \/ result.area /= "" /\ result.routing /= "" /\ result.reason = ""
        \/ result.reason /= "" /\ result.area = "" /\ result.routing = ""

\* the reasons of the classifiers that contain the words "Empty address"
EmptyAddressReasons == {"Empty address"}

\* C3 as stated: a row with a blank combined address is rejected with a
\* reason containing "Empty address" by either classifier, before country
\* detection or any matcher is attempted.
C3_Original ==
    RowDone /\ BlankAddress =>
        /\ result.reason \in EmptyAddressReasons
        /\ result.area = "" /\ result.routing = ""
        /\ calls = <<>>

\* C3 (amended): the Classifier rejects a row with a blank combined address
\* with the reason "Empty address" before it detects the country or tries
\* any matcher.  The SpainClassifier makes no such test: it classifies the
\* row when the mapped postcode cell yields a five-digit code and otherwise
\* rejects it with "No valid 5-digit postal code found".
C3_BlankAddress ==
    RowDone /\ BlankAddress =>
        IF profile = "ireland"
        THEN /\ result = ClassificationResult("", "", "Empty address")
             /\ calls = <<>>
        ELSE IF _extract_postcode_from_column(pc_col) /= <<>>
        THEN /\ result.reason = ""
             /\ result.routing \in {"D1", "D2"}
        ELSE result = ClassificationResult(
                          "", "", "No valid 5-digit postal code found")

\* a whitespace-only address with the country column saying Ireland has
\* been rejected as empty
C3_Witness ==
    /\ RowDone
    /\ profile = "ireland"
    /\ combined = << " ", " " >>
    /\ country_val = <<"I","r","e","l","a","n","d">>
    /\ result.reason = "Empty address"

\* the matchers of the Ireland chain in their order, each with whether it
\* matches the text and the area and routing it stands for
ChainMatchers(cfg, t, cache) ==
    LET eircode  == match_eircode(t, cfg.eircode_routing)
        dublin   == match_dublin_district(t, cache)
        fallback == cfg.ireland_other
    IN  << [hit     |-> eircode /= None,
            area    |-> eircode,
            routing |-> IF eircode /= None
                        THEN _get_routing_for_area(eircode, cfg) ELSE None],
           [hit     |-> dublin /= None,
            area    |-> dublin,
            routing |-> "LETTERSHOP"] >>
        \o [n \in 1..Len(cfg.lettershop_areas) |->
              [hit     |-> EntryMatches(cfg.lettershop_areas[n], LowerText(t)),
               area    |-> cfg.lettershop_areas[n].area,
               routing |-> "LETTERSHOP"]]
        \o [n \in 1..Len(cfg.national_areas) |->
              [hit     |-> EntryMatches(cfg.national_areas[n], t),
               area    |-> cfg.national_areas[n].area,
               routing |-> "NATIONAL"]]
        \o << [hit     |-> DOMAIN fallback /= {},
               area    |-> DictGet(fallback, "area", "Ireland Other"),
               routing |-> DictGet(fallback, "routing", "NATIONAL")] >>

\* the row went through the Ireland chain as the handler of its country
IrelandHandled ==
    /\ RowDone
    /\ profile = "ireland"
    /\ ~BlankAddress
    /\ _detect_country(config, combined, country_val) = "ireland"

\* C6: the Ireland chain is Eircode, Dublin district, the lettershop
\* entries in list order, the national entries in list order, the
\* fallback; the result has the area and routing of the earliest matcher
\* that matches the text.
C6_FirstMatchWins ==
    IrelandHandled =>
        LET ms == ChainMatchers(config, combined, <<>>)
            n  == FirstIndex(Len(ms), LAMBDA m : ms[m].hit)
        IN  n /= 0 => /\ result.area = ms[n].area
                      /\ result.routing = ms[n].routing
                      /\ result.reason = ""

\* no country pattern matches the country value or the combined address
NoCountryDetected ==
    /\ RowDone
    /\ profile = "ireland"
    /\ ~BlankAddress
    /\ _detect_country(config, combined, country_val) = None

\* one of the matchers before the fallback (Eircode, district, keyword
\* entry) matches the text
SpecificMatcherHits(cfg, t) ==
    \E n \in 1..(Len(ChainMatchers(cfg, t, <<>>)) - 1) : ChainMatchers(cfg, t, <<>>)[n].hit

\* C12: when no country is detected the result of the speculative Ireland
\* chain is accepted only if an Eircode, district or keyword matcher
\* produced it; when the chain yields its fallback, whatever its label, or
\* a rejection, the row is rejected with "Could not determine country or
\* area".
C12_SpeculativeChain ==
    NoCountryDetected =>
        /\ result.reason = "" => SpecificMatcherHits(config, combined)
        /\ ~SpecificMatcherHits(config, combined) =>
              result = ClassificationResult(
                           "", "", "Could not determine country or area")

\* Ireland was detected and no Eircode, district or keyword matches
IrelandNothingMatched ==
    /\ IrelandHandled
    /\ ~SpecificMatcherHits(config, combined)

\* C13 as stated: when Ireland is detected and nothing matches a non-blank
\* address the row is classified with the configured fallback area and
\* routing, "Ireland Other" and "NATIONAL" standing in for what the
\* configuration does not supply.
C13_Original ==
    IrelandNothingMatched =>
        result = ClassificationResult(
                     DictGet(config.ireland_other, "area", "Ireland Other"),
                     DictGet(config.ireland_other, "routing", "NATIONAL"), "")

\* C13 (amended): when Ireland is detected and nothing matches a non-blank
\* address, the row is classified with the fallback's area and routing if
\* the configuration has a non-empty areas.ireland_other, a missing "area"
\* defaulting to "Ireland Other" and a missing "routing" to "NATIONAL"; if
\* areas.ireland_other is absent or empty the row is rejected with
\* "Ireland address: no area matched".
C13_Fallback ==
    IrelandNothingMatched =>
        IF DOMAIN config.ireland_other /= {}
        THEN /\ result.reason = ""
             /\ result.area = IF "area" \in DOMAIN config.ireland_other
                              THEN config.ireland_other["area"] ELSE "Ireland Other"
             /\ result.routing = IF "routing" \in DOMAIN config.ireland_other
                                 THEN config.ireland_other["routing"] ELSE "NATIONAL"
        ELSE result = ClassificationResult(
                          "", "", "Ireland address: no area matched")

\* an Irish address that nothing matches was given the configured area and
\* the default routing
C13_Witness ==
    /\ IrelandNothingMatched
    /\ DOMAIN config.ireland_other = {"area"}
    /\ combined = <<"P","a","r","i","s">>
    /\ country_val = <<"I","r","e","l","a","n","d">>
    /\ result = ClassificationResult("Rest of Ireland", "NATIONAL", "")

\* the five-digit code of the row: the one the mapped postcode column
\* yields, else the first standalone run of five digits of the combined
\* address; <<>> when there is none
FoundPostcode ==
    IF _extract_postcode_from_column(pc_col) /= <<>>
    THEN _extract_postcode_from_column(pc_col)
    ELSE PostcodeSearch(combined)

\* C14: SpainClassifier._classify_row has three outcomes, decided by the
\* extracted five-digit code: a code in the D1 table gives routing "D1" with
\* the table's locality as area, a code not in the table gives area and
\* routing "D2", and no code in the postcode column or the combined text
\* gives the rejection "No valid 5-digit postal code found"; the row is an
\* exception exactly when no code is found.
C14_ThreeOutcomes ==
    RowDone /\ profile = "spain" =>
        /\ result.reason /= "" <=> FoundPostcode = <<>>
        /\ IF FoundPostcode = <<>>
           THEN result = ClassificationResult(
                             "", "", "No valid 5-digit postal code found")
           ELSE IF FoundPostcode \in DOMAIN d1_mapping
           THEN result = ClassificationResult(d1_mapping[FoundPostcode], "D1", "")
           ELSE result = ClassificationResult("D2", "D2", "")

(***************************************************************************)
(* src/classifier.py, src/spain_classifier.py: classify; src/output.py:    *)
(* write_output and _compute_stats                                         *)
(*                                                                         *)
(* A table (DataFrame) is [columns, rows]; a row is a function from the    *)
(* column names to the cells, with its index label under "idx".  A cell of *)
(* an input column is [isna, raw]: whether it is missing, and str() of it. *)
(***************************************************************************)
\* row.get(col) for an Optional column name col (<<>> for None)
RowGet(row, col) ==
    IF col /= <<>> /\ col[1] \in DOMAIN row THEN row[col[1]]
    ELSE [isna |-> TRUE, raw |-> <<>>]

\* Classifier.classify: the country value of the row
CountryValueOf(row, cm) ==
    IF cm.country = <<>> THEN <<>>
    ELSE IF RowGet(row, cm.country).isna THEN <<>>
    ELSE Strip(RowGet(row, cm.country).raw)

\* the mapped postcode cell as SpainClassifier._classify_row reads it
PostcodeCellOf(row, cm) ==
    [mapped |-> cm.postcode /= <<>>,
     isna   |-> RowGet(row, cm.postcode).isna,
     raw    |-> RowGet(row, cm.postcode).raw]

\* the loop of SpainClassifier.classify
SpainResults(d1, rows, cm) ==
    [n \in 1..Len(rows) |->
        SpainClassifier_classify_row(d1, rows[n]["combined_address"],
                                     PostcodeCellOf(rows[n], cm))]

\* df[name] = values: the column is appended when it is new
WithColumn(tbl, name, values) ==
    [columns |-> IF name \in Range(tbl.columns) THEN tbl.columns
                 ELSE Append(tbl.columns, name),
     rows    |-> [n \in 1..Len(tbl.rows) |->
                    [c \in DOMAIN tbl.rows[n] \cup {name} |->
                        IF c = name THEN values[n] ELSE tbl.rows[n][c]]]]

\* df.drop(columns=[name])
DropColumn(tbl, name) ==
    [columns |-> SelectSeq(tbl.columns, LAMBDA c : c /= name),
     rows    |-> [n \in 1..Len(tbl.rows) |->
                    [c \in DOMAIN tbl.rows[n] \ {name} |-> tbl.rows[n][c]]]]

\* the row was classified by its Eircode: match_eircode was the last
\* matcher called
ByEircode == RowDone /\ calls /= <<>> /\ calls[Len(calls)] = "match_eircode"

\* the area names of the lettershop keyword list
LettershopAreaNames ==
    {config.lettershop_areas[n].area : n \in 1..Len(config.lettershop_areas)}

\* the name begins with "Dublin "
DublinName(area) ==
    /\ Len(Spelling[area]) >= 7
    /\ SubSeq(Spelling[area], 1, 7) = <<"D","u","b","l","i","n"," ">>

\* C27: the routing of an Eircode-derived area is "LETTERSHOP" if the area
\* name starts with "Dublin " or is the area of an entry of the lettershop
\* keyword list, and "NATIONAL" in every other case, also for an area that
\* is in no keyword list.
C27_EircodeRouting ==
    ByEircode =>
        result.routing =
            IF DublinName(result.area) \/ result.area \in LettershopAreaNames
            THEN "LETTERSHOP" ELSE "NATIONAL"

\* T12 is routed to "Rest of Ireland", an area of no keyword list, and a
\* row with that prefix is classified NATIONAL
C27_Witness ==
    /\ ByEircode
    /\ result.area = "Rest of Ireland"
    /\ result.area \notin LettershopAreaNames
    /\ \A n \in 1..Len(config.national_areas) :
          config.national_areas[n].area /= result.area
    /\ result.routing = "NATIONAL"

\* the positions of t at which a run of exactly five digits stands that
\* no letter, digit or underscore touches
StandaloneCodes(t) ==
    {i \in 1..Len(t) :
        /\ i + 4 <= Len(t)
        /\ \A k \in i..(i + 4) : t[k] \in DigitChars
        /\ i > 1 => t[i - 1] \notin DigitChars /\ ~IsLetter(t[i - 1]) /\ t[i - 1] /= "_"
        /\ i + 5 <= Len(t) =>
              t[i + 5] \notin DigitChars /\ ~IsLetter(t[i + 5]) /\ t[i + 5] /= "_"}

\* the first standalone code of t, <<>> when it has none
FirstCode(t) ==
    IF StandaloneCodes(t) = {} THEN <<>>
    ELSE LET i == CHOOSE n \in StandaloneCodes(t) : \A m \in StandaloneCodes(t) : n <= m
         IN  SubSeq(t, i, i + 4)

\* the value of the postcode cell, trimmed, and filled with zeros on the
\* left to five digits when it consists of digits only
CellValue ==
    LET v == Strip(pc_col.raw)
    IN  IF v /= <<>> /\ (\A k \in 1..Len(v) : v[k] \in DigitChars) /\ Len(v) < 5
        THEN [k \in 1..(5 - Len(v)) |-> "0"] \o v
        ELSE v

\* the code the postcode column gives, <<>> when the column is unmapped,
\* the cell missing or without a standalone code
ColumnCode ==
    IF pc_col.mapped /\ ~pc_col.isna THEN FirstCode(CellValue) ELSE <<>>

\* C24: when the mapped postcode column holds a value that, trimmed and
\* zero-filled, contains a standalone code, the row is classified by that
\* code alone and the combined address is not consulted, whatever code it
\* contains; otherwise the row is classified by the first standalone code
\* of the combined address, and is an exception when there is none.
C24_ColumnBeforeText ==
    RowDone /\ profile = "spain" =>
        IF ColumnCode /= <<>>
        THEN /\ "_extract_postcode_from_text" \notin Range(calls)
             /\ result = SpainClassifier_classify_row(d1_mapping, ColumnCode, NoCell)
        ELSE /\ "_extract_postcode_from_text" \in Range(calls)
             /\ result = SpainClassifier_classify_row(d1_mapping, FirstCode(combined), NoCell)
             /\ FirstCode(combined) = <<>> => result.reason /= ""

\* the column holds " 08001 " and the combined address the code 28001:
\* the row is classified as BARCELONA, the locality of the column's code
C24_Witness ==
    /\ RowDone
    /\ profile = "spain"
    /\ pc_col = [mapped |-> TRUE, isna |-> FALSE, raw |-> <<" ","0","8","0","0","1"," ">>]
    /\ FirstCode(combined) = <<"2","8","0","0","1">>
    /\ result = ClassificationResult("BARCELONA", "D1", "")

(***************************************************************************)
(* src/build_address.py: add_combined_address; src/models.py:              *)
(* ColumnMapping.address_columns                                           *)
(***************************************************************************)
\* the fields of a ColumnMapping in the order of its declaration, country
\* last
MappedFields ==
    <<"address_line_1", "address_line_2", "address_line_3",
      "city", "county", "postcode", "country">>

\* the columns of the fields fs that are not None, in the order of fs
ColumnsOf(cm, fs) ==
    LET set == SelectSeq(fs, LAMBDA f : cm[f] /= <<>>)
    IN  [i \in 1..Len(set) |-> cm[set[i]][1]]

\* ColumnMapping.mapped_columns(): the country column included
address_columns_withCountry(cm) == ColumnsOf(cm, MappedFields)

\* ColumnMapping.address_columns()
address_columns(cm) == ColumnsOf(cm, SubSeq(MappedFields, 1, 6))

\* ", ".join(parts)
JoinComma(parts) ==
    Flatten([i \in 1..Len(parts) |->
                IF i = 1 THEN parts[i] ELSE <<",", " ">> \o parts[i]])

\* _combine_row(row): the stripped values of the address columns that are
\* neither missing nor blank, joined
_combine_row(row, address_cols) ==
    LET vals  == [i \in 1..Len(address_cols) |->
                     IF RowGet(row, <<address_cols[i]>>).isna THEN <<>>
                     ELSE Strip(RowGet(row, <<address_cols[i]>>).raw)]
    IN  JoinComma(SelectSeq(vals, LAMBDA v : v /= <<>>))

\* add_combined_address(df, col_map): the copy it returns
add_combined_address(tbl, cm) ==
    WithColumn(tbl, "combined_address",
               [n \in 1..Len(tbl.rows) |->
                   IF address_columns(cm) = <<>> THEN <<>>
                   ELSE _combine_row(tbl.rows[n], address_columns(cm))])

\* the name of the area column of each classifier
AreaColumn(prof) == IF prof = "ireland" THEN "Lettershop Area" ELSE "Area"

\* df with the three result columns
WithResults(tbl, prof, rs) ==
    WithColumn(
        WithColumn(
            WithColumn(tbl, AreaColumn(prof), [n \in 1..Len(rs) |-> rs[n].area]),
            "Routing", [n \in 1..Len(rs) |-> rs[n].routing]),
        "_exception_reason", [n \in 1..Len(rs) |-> rs[n].reason])

\* is_exception = df["_exception_reason"] != ""
is_exception(row) == row["_exception_reason"] /= ""

\* the sort key of Classifier.classify, compared: (0 if x == "LETTERSHOP"
\* else 1, x); SpainClassifier.classify sorts by the plain values
KeyLess(prof, x, y) ==
    IF prof = "ireland"
    THEN LET fx == IF x = "LETTERSHOP" THEN 0 ELSE 1
             fy == IF y = "LETTERSHOP" THEN 0 ELSE 1
         IN  fx < fy \/ (fx = fy /\ StrLess(x, y))
    ELSE StrLess(x, y)

\* by=["Routing", area column]: r sorts strictly before s
RowLess(prof, r, s) ==
    \/ KeyLess(prof, r["Routing"], s["Routing"])
    \/ /\ r["Routing"] = s["Routing"]
       /\ KeyLess(prof, r[AreaColumn(prof)], s[AreaColumn(prof)])

\* a sort that does not keep the order of rows with equal keys: they come
\* out in reverse
sort_values_unstable(prof, rows) ==
    LET n == Len(rows)
        rank(i) == Cardinality({j \in 1..n : RowLess(prof, rows[j], rows[i])})
                   + Cardinality({j \in (i + 1)..n :
                                    /\ ~RowLess(prof, rows[i], rows[j])
                                    /\ ~RowLess(prof, rows[j], rows[i])})
                   + 1
    IN  [p \in 1..n |-> rows[CHOOSE i \in 1..n : rank(i) = p]]

\* sort_values(by=..., kind="mergesort"): a row comes after the rows that
\* sort before it and after the rows with equal keys that precede it
sort_values(prof, rows) ==
    LET n == Len(rows)
        rank(i) == Cardinality({j \in 1..n : RowLess(prof, rows[j], rows[i])})
                   + Cardinality({j \in 1..(i - 1) :
                                    /\ ~RowLess(prof, rows[i], rows[j])
                                    /\ ~RowLess(prof, rows[j], rows[i])})
                   + 1
    IN  [p \in 1..n |-> rows[CHOOSE i \in 1..n : rank(i) = p]]

\* df[~is_exception].drop(columns=["_exception_reason"]), sorted
Classified(prof, tbl) ==
    LET kept == DropColumn([columns |-> tbl.columns,
                            rows    |-> SelectSeq(tbl.rows, LAMBDA r : ~is_exception(r))],
                           "_exception_reason")
    IN  [columns |-> kept.columns, rows |-> sort_values(prof, kept.rows)]

\* an exception table that keeps only the rows rejected as empty
Exceptions_emptyOnly(tbl) ==
    [columns |-> tbl.columns,
     rows    |-> SelectSeq(tbl.rows, LAMBDA r : r["_exception_reason"] = "Empty address")]

\* df[is_exception].copy()
Exceptions(tbl) ==
    [columns |-> tbl.columns,
     rows    |-> SelectSeq(tbl.rows, LAMBDA r : is_exception(r))]

\* Series.value_counts().to_dict()
value_counts(rows, col) ==
    [v \in {rows[n][col] : n \in 1..Len(rows)} |->
        Cardinality({n \in 1..Len(rows) : rows[n][col] = v})]

_compute_stats(classified, exceptions) ==
    LET classified_count == Len(classified.rows)
        exception_count  == Len(exceptions.rows)
    IN  [total_rows      |-> classified_count + exception_count,
         classified_rows |-> classified_count,
         exception_rows  |-> exception_count,
         area_counts     |-> IF "Area" \in Range(classified.columns)
                                /\ classified_count > 0
                             THEN value_counts(classified.rows, "Area") ELSE EmptyDict,
         routing_counts  |-> IF "Routing" \in Range(classified.columns)
                                /\ classified_count > 0
                             THEN value_counts(classified.rows, "Routing") ELSE EmptyDict]

(***************************************************************************)
(* Specification of a run over a table: a classifier is constructed, its   *)
(* classify is called on a table of up to MaxRows rows and write_output    *)
(* computes the stats of the two tables returned.                          *)
(***************************************************************************)
MaxRows == 3

Cell(raw) == [isna |-> FALSE, raw |-> raw]

NaN == [isna |-> TRUE, raw |-> <<>>]

\* input rows for the Classifier: an address cell, a postcode cell and a
\* country cell
IrelandSeeds ==
    { [address |-> Cell(<<"S","w","o","r","d","s">>),     postcode |-> Cell(<<"D","0","2"," ","Y","X","8","8">>), country |-> Cell(<<"I","r","e","l","a","n","d">>)],
      [address |-> Cell(<<" ","D","u","b","l","i","n"," ","4"," ">>), postcode |-> NaN,               country |-> NaN],
      [address |-> Cell(<<"C","o","r","k">>),       postcode |-> NaN,               country |-> Cell(<<" ","I","r","e","l","a","n","d"," ">>)],
      [address |-> Cell(<<" ">>),          postcode |-> Cell(<<"T","1","2">>),      country |-> NaN],
      [address |-> NaN,                 postcode |-> NaN,               country |-> Cell(<<"I","r","e","l","a","n","d">>)],
      [address |-> Cell(<<"P","a","r","i","s">>),      postcode |-> NaN,               country |-> Cell(<<"F","r","a","n","c","e">>)],
      [address |-> Cell(<<"I","r","e","l","a","n","d">>),    postcode |-> NaN,               country |-> NaN] }

\* input rows for the SpainClassifier
SpainSeeds ==
    { [address |-> Cell(<<"C","a","l","l","e">>),       postcode |-> Cell(<<"2","8","0","0","1">>),   country |-> NaN],
      [address |-> Cell(<<"C","a","l","l","e"," ","9","9","9","9","9">>), postcode |-> NaN,              country |-> NaN],
      [address |-> Cell(<<"C","a","l","l","e"," ","2","8","0","0","1">>), postcode |-> Cell(<<"1","0","0","1">>),    country |-> NaN],
      [address |-> NaN,                  postcode |-> Cell(<<" ","0","8","0","0","1"," ">>), country |-> NaN] }

\* the columns of the input file; the postcode column stands before the
\* address column
InputColumns == <<"country", "postcode", "address">>

\* the table of the seeds, indexed 1, 2, ...
MakeTable(seeds) ==
    [columns |-> InputColumns,
     rows    |-> [n \in 1..Len(seeds) |->
                    [idx      |-> n,
                     country  |-> seeds[n].country,
                     postcode |-> seeds[n].postcode,
                     address  |-> seeds[n].address]]]

\* the shipped shape, a fallback with an empty area, an Eircode prefix
\* routed to an area that is named like the primary bucket, and a national
\* keyword entry with the area name of a lettershop entry
TableConfigs ==
    { BaseConfig,
      [BaseConfig EXCEPT !.ireland_other = [area |-> "", routing |-> "NATIONAL"]],
      [BaseConfig EXCEPT !.eircode_routing[2].area = "LETTERSHOP"],
      [BaseConfig EXCEPT !.national_areas[1].area = "Swords"] }

\* the column mappings of the run: address, postcode and country mapped,
\* the address alone, and the two address columns mapped to a third line
\* and the county
TableColMaps ==
    { ColumnMapping([address_line_1 |-> "address", postcode |-> "postcode",
                     country |-> "country"]),
      ColumnMapping([address_line_1 |-> "address"]),
      ColumnMapping([address_line_3 |-> "postcode", county |-> "address",
                     country |-> "country"]) }

TableInit ==
    /\ profile \in {"ireland", "spain"}
    /\ IF profile = "ireland"
       THEN /\ config \in TableConfigs
            /\ d1_mapping = <<>>
            /\ df_in \in {MakeTable(seeds) : seeds \in SeqsUpTo(IrelandSeeds, MaxRows)}
       ELSE /\ config = <<>>
            /\ d1_mapping \in D1Mappings
            /\ df_in \in {MakeTable(seeds) : seeds \in SeqsUpTo(SpainSeeds, MaxRows)}
    /\ col_map \in TableColMaps
    /\ df = NoTable
    /\ results = <<>>
    /\ df_classified = NoTable
    /\ df_exceptions = NoTable
    /\ stats = NoStats
    /\ cpc = "raw"

\* df = add_combined_address(df, col_map)
AddCombinedAddress ==
    /\ cpc = "raw"
    /\ df' = add_combined_address(df_in, col_map)
    /\ cpc' = "start"
    /\ UNCHANGED <<df_in, results, df_classified, df_exceptions, stats>>
    /\ UNCHANGED <<districtVars, detectVars, engineVars, rowVars, editVars, matchVars, workerVars>>

\* Classifier.classify(df, col_map), one pass of the loop over
\* df.iterrows(): the next row is classified and its result appended
ClassifyIrelandRow ==
    /\ cpc = "start"
    /\ profile = "ireland"
    /\ Len(results) < Len(df.rows)
    /\ results' = Append(results,
                         Classifier_classify_row(
                             config, df.rows[Len(results) + 1]["combined_address"],
                             CountryValueOf(df.rows[Len(results) + 1], col_map),
                             district_patterns))
    /\ district_patterns' =
           CacheAfterRow(config, df.rows[Len(results) + 1]["combined_address"],
                         CountryValueOf(df.rows[Len(results) + 1], col_map),
                         district_patterns)
    /\ UNCHANGED <<df_in, df, df_classified, df_exceptions, stats, cpc>>
    /\ UNCHANGED <<text, district, dpc>>
    /\ UNCHANGED <<detectVars, engineVars, rowVars, editVars, matchVars, workerVars>>

\* Classifier.classify(df, col_map) after the loop: the result columns are
\* added, the table is split and the classified part sorted
ClassifyIrelandFinish ==
    /\ cpc = "start"
    /\ profile = "ireland"
    /\ Len(results) = Len(df.rows)
    /\ df_classified' = Classified(profile, WithResults(df, profile, results))
    /\ df_exceptions' = Exceptions(WithResults(df, profile, results))
    /\ cpc' = "classified"
    /\ UNCHANGED <<df_in, df, results, stats>>
    /\ UNCHANGED <<districtVars, detectVars, engineVars, rowVars, editVars, matchVars, workerVars>>

\* SpainClassifier.classify(df, col_map)
ClassifySpain ==
    /\ cpc = "start"
    /\ profile = "spain"
    /\ results' = SpainResults(d1_mapping, df.rows, col_map)
    /\ df_classified' =
           Classified(profile,
                      WithResults(df, profile, SpainResults(d1_mapping, df.rows, col_map)))
    /\ df_exceptions' =
           Exceptions(WithResults(df, profile, SpainResults(d1_mapping, df.rows, col_map)))
    /\ cpc' = "classified"
    /\ UNCHANGED <<df_in, df, stats>>
    /\ UNCHANGED <<districtVars, detectVars, engineVars, rowVars, editVars, matchVars, workerVars>>

\* write_output(path, df_classified, df_exceptions): the stats it returns,
\* and the column it drops in place from the caller's classified table
\* when that table is empty (a non-empty one is copied first)
WriteOutput ==
    /\ cpc = "classified"
    /\ stats' = _compute_stats(df_classified, df_exceptions)
    /\ df_classified' = IF Len(df_classified.rows) > 0 THEN df_classified
                        ELSE DropColumn(df_classified, "combined_address")
    /\ cpc' = "written"
    /\ UNCHANGED <<df_in, df, results, df_exceptions>>
    /\ UNCHANGED <<districtVars, detectVars, engineVars, rowVars, editVars, matchVars, workerVars>>

TableNext ==
    \/ AddCombinedAddress
    \/ ClassifyIrelandRow
    \/ ClassifyIrelandFinish
    \/ ClassifySpain
    \/ WriteOutput

TableSpecInit ==
    /\ TableInit
    /\ LoadIdle
    /\ DistrictIdle
    /\ DetectNotRunning
    /\ RowIdle
    /\ EditIdle
    /\ MatchIdle
    /\ WorkersIdle

SpecTable == TableSpecInit /\ [][TableNext]_vars

(***************************************************************************)
(* Claims about classify and the stats                                     *)
(***************************************************************************)
\* classify has returned its two tables
Classified_Returned == cpc \in {"classified", "written"}

\* the number of rows of tbl with the index label i
CountIdx(tbl, i) ==
    Cardinality({n \in 1..Len(tbl.rows) : tbl.rows[n]["idx"] = i})

\* the row of the output table is the input row with that index label
SameInputRow(r) ==
    /\ r["idx"] \in 1..Len(df.rows)
    /\ \A c \in {"country", "postcode", "address", "combined_address"} :
          r[c] = df.rows[r["idx"]][c]

\* C1: Classifier.classify and SpainClassifier.classify put every input row
\* in exactly one of the classified table and the exception table, nothing
\* lost or duplicated by the split or the sort, and the stats computed from
\* the two tables have total_rows = classified_rows + exception_rows = the
\* number of input rows.
C1_Reconciles ==
    /\ Classified_Returned =>
          /\ \A i \in 1..Len(df.rows) :
                CountIdx(df_classified, i) + CountIdx(df_exceptions, i) = 1
          /\ Len(df_classified.rows) + Len(df_exceptions.rows) = Len(df.rows)
          /\ \A n \in 1..Len(df_exceptions.rows) : SameInputRow(df_exceptions.rows[n])
          /\ cpc = "classified" =>
                \A n \in 1..Len(df_classified.rows) : SameInputRow(df_classified.rows[n])
    /\ cpc = "written" =>
          /\ stats.total_rows = stats.classified_rows + stats.exception_rows
          /\ stats.total_rows = Len(df.rows)
          /\ stats.classified_rows = Len(df_classified.rows)
          /\ stats.exception_rows = Len(df_exceptions.rows)

\* the classified table is not in input order: the sort has moved a row
SortMovedRows ==
    \E p, q \in 1..Len(df_classified.rows) :
        p < q /\ df_classified.rows[p]["idx"] > df_classified.rows[q]["idx"]

\* a run has ended with rows in both tables, among them rejections for
\* another reason than an empty address, and a classified table the sort
\* has reordered
C1_Witness ==
    /\ cpc = "written"
    /\ Len(df.rows) >= 3
    /\ SortMovedRows
    /\ \E n \in 1..Len(df_exceptions.rows) :
          df_exceptions.rows[n]["_exception_reason"] /= "Empty address"

\* rows p and q of the classified table have the same (routing, area)
SameGroup(p, q) ==
    /\ df_classified.rows[p]["Routing"] = df_classified.rows[q]["Routing"]
    /\ df_classified.rows[p][AreaColumn(profile)]
           = df_classified.rows[q][AreaColumn(profile)]

PrimaryBucket == IF profile = "ireland" THEN "LETTERSHOP" ELSE "D1"

\* C11: in the classified table every row of the primary routing bucket
\* (LETTERSHOP for Ireland, D1 for Spain) stands before every row of another
\* bucket, and within one routing bucket of the Ireland profile the rows
\* are in ascending order of the area name.
C11_PrimaryFirstAreaAscending ==
    Classified_Returned =>
        \A p, q \in 1..Len(df_classified.rows) :
            p < q =>
                /\ df_classified.rows[q]["Routing"] = PrimaryBucket
                      => df_classified.rows[p]["Routing"] = PrimaryBucket
                /\ /\ profile = "ireland"
                   /\ df_classified.rows[p]["Routing"] = df_classified.rows[q]["Routing"]
                   => ~StrLess(df_classified.rows[q]["Lettershop Area"],
                               df_classified.rows[p]["Lettershop Area"])

\* the five-digit code SpainClassifier extracts for a row of the table
RowPostcode(r) ==
    IF _extract_postcode_from_column(PostcodeCellOf(r, col_map)) /= <<>>
    THEN _extract_postcode_from_column(PostcodeCellOf(r, col_map))
    ELSE PostcodeSearch(r["combined_address"])

\* C15: in the classified table of the Spain profile the rows of one
\* routing group are in ascending order of their postal codes, whatever the
\* order of the input rows.
C15_PostalCodeOrder ==
    Classified_Returned /\ profile = "spain" =>
        \A p, q \in 1..Len(df_classified.rows) :
            /\ p < q
            /\ df_classified.rows[p]["Routing"] = df_classified.rows[q]["Routing"]
            => ~TextLess(RowPostcode(df_classified.rows[q]),
                         RowPostcode(df_classified.rows[p]))

\* the sum of the counts of a value_counts dict
RECURSIVE SumCounts(_)
SumCounts(f) ==
    IF DOMAIN f = {} THEN 0
    ELSE LET k == CHOOSE x \in DOMAIN f : TRUE
         IN  f[k] + SumCounts([x \in DOMAIN f \ {k} |-> f[x]])

\* counts maps each value of column col of the classified table to the
\* number of classified rows that carry it
CountsColumn(counts, col) ==
    /\ DOMAIN counts = {df_classified.rows[n][col] : n \in 1..Len(df_classified.rows)}
    /\ \A v \in DOMAIN counts :
          counts[v] = Cardinality({n \in 1..Len(df_classified.rows) :
                                      df_classified.rows[n][col] = v})

\* C16: the stats of a run map every distinct area among the classified
\* rows to the number of classified rows with that area, and every distinct
\* routing to its number of rows; the area counts and the routing counts
\* each sum to classified_rows when that is positive.  This holds for the
\* table of the Classifier (area column "Lettershop Area") as for the table
\* of the SpainClassifier (area column "Area").
C16_CountsPerAreaAndRouting ==
    cpc = "written" /\ stats.classified_rows > 0 =>
        /\ CountsColumn(stats.area_counts, AreaColumn(profile))
        /\ CountsColumn(stats.routing_counts, "Routing")
        /\ SumCounts(stats.area_counts) = stats.classified_rows
        /\ SumCounts(stats.routing_counts) = stats.classified_rows

(***************************************************************************)
(* src/classifier.py: Classifier.__init__ and _load_config;                *)
(* src/detect_columns.py: load_column_aliases                              *)
(*                                                                         *)
(* A configuration file is [exists, valid_yaml, type, keys, config]:       *)
(* whether open() finds it, whether yaml.safe_load parses it, the type of  *)
(* the parsed value, its top-level keys when it is a dict and the content  *)
(* the program reads from it.  The value under "countries" is a dict       *)
(* unless countries_is_dict says otherwise.  A keyword pattern that        *)
(* re.compile rejects carries the field malformed.                         *)
(***************************************************************************)
\* the exception the try block of a loader ends with, "" when it parses
SafeLoadError(file) ==
    IF ~file.exists THEN "ConfigError"           \* from FileNotFoundError
    ELSE IF ~file.valid_yaml THEN "ConfigError"  \* from yaml.YAMLError
    ELSE ""

\* a loader that takes any dict for a rules configuration
_load_config_noKeyCheck(file) ==
    IF SafeLoadError(file) /= "" THEN SafeLoadError(file)
    ELSE IF file.type /= "dict" THEN "ConfigError"
    ELSE ""

\* Classifier._load_config(path): the exception it raises, "" when it
\* returns the data
_load_config(file) ==
    IF SafeLoadError(file) /= "" THEN SafeLoadError(file)
    ELSE IF file.type /= "dict" \/ "countries" \notin file.keys THEN "ConfigError"
    ELSE ""

\* load_column_aliases(config_path): the exception it raises, "" when it
\* returns the data
load_column_aliases(file) ==
    IF SafeLoadError(file) /= "" THEN SafeLoadError(file)
    ELSE IF file.type /= "dict" THEN "ConfigError"
    ELSE ""

\* _compile_country_patterns: self.config["countries"].items() needs a
\* dict; the patterns themselves are escaped and always compile
_compile_country_patterns(file) ==
    IF file.countries_is_dict THEN "" ELSE "AttributeError"

\* Classifier.__init__(config_path): the exception it raises, "" when the
\* object is constructed
Classifier_init(file) ==
    IF _load_config(file) /= "" THEN _load_config(file)
    ELSE _compile_country_patterns(file)

\* re.search(pattern, ...) cannot compile the pattern
IsMalformed(p) == "malformed" \in DOMAIN p

\* the loop of match_lettershop_keyword / match_national_area raises
\* re.error: it reaches a malformed pattern, no pattern before it in the
\* order of the loop having matched
KeywordsRaise(keywords, t) ==
    \E n \in 1..Len(keywords) :
        \E k \in 1..Len(keywords[n].patterns) :
            /\ IsMalformed(keywords[n].patterns[k])
            /\ \A m \in 1..n :
                  \A j \in 1..Len(keywords[m].patterns) :
                      (m < n \/ j < k) =>
                          /\ ~IsMalformed(keywords[m].patterns[j])
                          /\ ~KeywordSearch(keywords[m].patterns[j], t)

\* _classify_ireland raises re.error
IrelandChainRaises(cfg, t, cache) ==
    /\ ~Truthy(match_eircode(t, cfg.eircode_routing))
    /\ ~Truthy(match_dublin_district(t, cache))
    /\ \/ t /= <<>> /\ KeywordsRaise(cfg.lettershop_areas, LowerText(t))
       \/ /\ ~(t /= <<>> /\ KeywordsRaise(cfg.lettershop_areas, LowerText(t)))
          /\ ~Truthy(match_lettershop_keyword(t, cfg.lettershop_areas))
          /\ t /= <<>> /\ KeywordsRaise(cfg.national_areas, t)

\* Classifier._classify_row raises re.error: the Ireland chain is run, as
\* the handler of the detected country or speculatively, and raises
ClassifierRowRaises(cfg, t, cv, cache) ==
    /\ Strip(t) /= <<>>
    /\ _detect_country(cfg, t, cv) \in {"ireland", None}
    /\ IrelandChainRaises(cfg, t, cache)

(***************************************************************************)
(* Specification of the start of the pipeline (app.py): detect_columns     *)
(* loads its alias file and maps the columns, the Classifier is            *)
(* constructed from its rules file, and a row is classified.  The pipeline *)
(* stops at the first call that raises.                                    *)
(***************************************************************************)
ConfigFile(exists, valid_yaml, type, keys, countries_is_dict, cfg) ==
    [exists |-> exists, valid_yaml |-> valid_yaml, type |-> type, keys |-> keys,
     countries_is_dict |-> countries_is_dict, config |-> cfg]

\* a pattern such as "cork(" that re.compile rejects
MalformedPattern == [lit |-> <<"c","o","r","k">>, wb |-> FALSE, malformed |-> TRUE]

\* rules.yaml with a malformed pattern first in the lettershop list, and
\* with one after a well-formed pattern of the last national entry
MalformedConfigs ==
    { [BaseConfig EXCEPT !.lettershop_areas[1].patterns = <<MalformedPattern>>],
      [BaseConfig EXCEPT !.national_areas[2].patterns =
          <<BaseConfig.national_areas[2].patterns[1], MalformedPattern>>] }

RulesKeys == {"countries"}

\* the rules files: missing, not YAML, empty, a list, a dict without
\* "countries", a dict whose "countries" is null, and rules in the shape of
\* the shipped file, well-formed or with a malformed pattern
RulesFiles ==
    { ConfigFile(FALSE, FALSE, "NoneType", {}, FALSE, <<>>),
      ConfigFile(TRUE, FALSE, "NoneType", {}, FALSE, <<>>),
      ConfigFile(TRUE, TRUE, "NoneType", {}, FALSE, <<>>),
      ConfigFile(TRUE, TRUE, "list", {}, FALSE, <<>>),
      ConfigFile(TRUE, TRUE, "dict", {"rules"}, FALSE, <<>>),
      ConfigFile(TRUE, TRUE, "dict", RulesKeys, FALSE, <<>>),
      ConfigFile(TRUE, TRUE, "dict", RulesKeys, TRUE, BaseConfig) }
    \cup { ConfigFile(TRUE, TRUE, "dict", RulesKeys, TRUE, cfg) : cfg \in MalformedConfigs }

\* the alias files: missing, not YAML, a list, and two alias tables
ColumnsFiles ==
    { ConfigFile(FALSE, FALSE, "NoneType", {}, FALSE, <<>>),
      ConfigFile(TRUE, FALSE, "NoneType", {}, FALSE, <<>>),
      ConfigFile(TRUE, TRUE, "list", {}, FALSE, <<>>) }
    \cup { ConfigFile(TRUE, TRUE, "dict", DOMAIN table, FALSE, table) : table \in AliasTables }

LoadColumnLists ==
    { <<<<"N","a","m","e">>>>, <<<<"C","o","u","n","t","r","y">>>>, <<<<"P","o","s","t","c","o","d","e">>, <<"C","o","u","n","t","r","y">>>> }

LoadTexts == { <<"C","o","r","k">>, <<"P","a","r","i","s">>, <<"D","u","b","l","i","n"," ","4">>, <<"B","l","a","c","k","r","o","c","k">> }

LoadInit ==
    /\ rules_file \in RulesFiles
    /\ columns_file \in ColumnsFiles
    /\ actual_columns \in LoadColumnLists
    /\ combined \in LoadTexts
    /\ country_val \in { <<>>, <<"I","r","e","l","a","n","d">> }
    /\ profile = "ireland"
    /\ config = <<>>
    /\ d1_mapping = <<>>
    /\ engine = None
    /\ raised = ""
    /\ lpc = "start"
    /\ aliases = <<>>
    /\ available = <<>>
    /\ mapping = <<>>
    /\ pass = 0
    /\ field_idx = 0
    /\ outcome = "idle"
    /\ col_map = <<>>
    /\ pc_col = NoCell
    /\ result = NoResult
    /\ calls = <<>>
    /\ rpc = "idle"

\* detect_columns(actual_columns, config_path) up to its first pass: the
\* alias file is loaded, which may raise, and the set of available
\* columns and the mapping are set up
DetectColumnsStart ==
    /\ lpc = "start"
    /\ IF load_column_aliases(columns_file) /= ""
       THEN /\ outcome' = load_column_aliases(columns_file)
            /\ raised' = load_column_aliases(columns_file)
            /\ lpc' = "failed"
            /\ UNCHANGED <<aliases, available, mapping, pass, field_idx>>
       ELSE /\ aliases' = columns_file.config
            /\ available' \in IterationOrders(Range(actual_columns))
            /\ mapping' = <<>>
            /\ pass' = 1
            /\ field_idx' = 1
            /\ outcome' = "running"
            /\ lpc' = "detecting"
            /\ UNCHANGED raised
    /\ UNCHANGED <<actual_columns, col_map>>
    /\ UNCHANGED <<profile, config, d1_mapping, rules_file, columns_file, engine>>
    /\ UNCHANGED <<districtVars, rowVars, tableVars, editVars, matchVars, workerVars>>

\* Classifier(config_path), called once the columns are detected
ConstructClassifier ==
    /\ lpc = "detecting"
    /\ outcome = "returned"
    /\ raised' = Classifier_init(rules_file)
    /\ IF Classifier_init(rules_file) = ""
       THEN /\ engine' = "Classifier"
            /\ config' = rules_file.config
            /\ lpc' = "constructed"
       ELSE /\ lpc' = "failed"
            /\ UNCHANGED <<engine, config>>
    /\ UNCHANGED <<profile, d1_mapping, rules_file, columns_file>>
    /\ UNCHANGED <<districtVars, detectVars, rowVars, tableVars, editVars, matchVars, workerVars>>

\* Classifier._classify_row(combined, country_val) on the constructed
\* classifier: it returns a result or raises re.error
ClassifyRowLoaded ==
    /\ lpc = "constructed"
    /\ IF ClassifierRowRaises(config, combined, country_val, district_patterns)
       THEN /\ raised' = "re.error"
            /\ district_patterns' = build_dublin_patterns(district_patterns)
            /\ UNCHANGED <<result, calls>>
       ELSE /\ result' = Classifier_classify_row(config, combined, country_val,
                                                 district_patterns)
            /\ calls' = ClassifierRow(config, combined, country_val,
                                      district_patterns).calls
            /\ district_patterns' = CacheAfterRow(config, combined, country_val,
                                                  district_patterns)
            /\ UNCHANGED raised
    /\ lpc' = "done"
    /\ UNCHANGED <<text, district, dpc>>
    /\ UNCHANGED <<combined, country_val, pc_col, rpc>>
    /\ UNCHANGED <<profile, config, d1_mapping, rules_file, columns_file, engine>>
    /\ UNCHANGED <<detectVars, tableVars, editVars, matchVars, workerVars>>

LoadNext ==
    \/ DetectColumnsStart
    \/ ExactPassStep
    \/ NormalizedPassStep
    \/ FuzzyPassStep
    \/ DetectFinish
    \/ ConstructClassifier
    \/ ClassifyRowLoaded

LoadSpecInit ==
    /\ LoadInit
    /\ DistrictIdle
    /\ TableIdle
    /\ EditIdle
    /\ MatchIdle
    /\ WorkersIdle

SpecLoad == LoadSpecInit /\ [][LoadNext]_vars

(***************************************************************************)
(* Claims about the loading of the configuration                           *)
(***************************************************************************)
\* the constructor of the Classifier has been called
ConstructorCalled ==
    \/ lpc \in {"constructed", "done"}
    \/ lpc = "failed" /\ outcome = "returned"

\* the rules file is missing, is not valid YAML, or parses to something
\* without the top-level key "countries"
RulesFileRejected ==
    \/ ~rules_file.exists
    \/ ~rules_file.valid_yaml
    \/ rules_file.type /= "dict"
    \/ "countries" \notin rules_file.keys

\* C17: constructing a Classifier raises ConfigError and yields no engine
\* when the rules file is missing, is not valid YAML or parses to something
\* without the key "countries"; detect_columns raises ConfigError when the
\* alias file is missing or is not valid YAML, before any column is
\* matched.
C17_ConfigErrorOnBadFile ==
    /\ ConstructorCalled /\ RulesFileRejected =>
          /\ raised = "ConfigError"
          /\ engine = None
          /\ config = <<>>
    /\ lpc /= "start" /\ (~columns_file.exists \/ ~columns_file.valid_yaml) =>
          /\ raised = "ConfigError"
          /\ outcome = "ConfigError"
          /\ mapping = <<>>
          /\ available = <<>>
          /\ pass = 0
          /\ ~ConstructorCalled

\* the constructor was given a YAML mapping without "countries" and raised
\* ConfigError
C17_Witness ==
    /\ ConstructorCalled
    /\ rules_file.exists /\ rules_file.valid_yaml
    /\ rules_file.type = "dict"
    /\ rules_file.keys = {"rules"}
    /\ raised = "ConfigError"
    /\ engine = None

\* some keyword pattern of the rules is a malformed regular expression
HasMalformedPattern(cfg) ==
    /\ cfg /= <<>>
    /\ \E keywords \in {cfg.lettershop_areas, cfg.national_areas} :
          \E n \in 1..Len(keywords) :
              \E k \in 1..Len(keywords[n].patterns) : IsMalformed(keywords[n].patterns[k])

\* C18: a malformed regular expression in the rules is reported as a
\* ConfigError when the Classifier is constructed, and with a configuration
\* the constructor has accepted the classification of a row never raises:
\* a row that matches nothing gets a rejection reason.
C18_DefectsAtConstruction ==
    /\ ConstructorCalled /\ HasMalformedPattern(rules_file.config) =>
          /\ raised = "ConfigError"
          /\ engine = None
    /\ lpc = "done" =>
          /\ raised = ""
          /\ result /= NoResult
          /\ /\ _detect_country(config, combined, country_val) = None
             /\ ~SpecificMatcherHits(config, combined)
             => result.reason /= "" /\ result.area = "" /\ result.routing = ""

(***************************************************************************)
(* Claims about add_combined_address and the tables of the callers         *)
(***************************************************************************)
\* add_combined_address has returned
Combined_Returned == cpc \in {"start", "classified", "written"}

\* the trimmed value of the field f in row n of the input table: empty
\* when the field is not mapped or the value is missing or blank
TrimmedValue(n, f) ==
    IF col_map[f] = <<>> THEN <<>>
    ELSE IF df_in.rows[n][col_map[f][1]].isna THEN <<>>
    ELSE Strip(df_in.rows[n][col_map[f][1]].raw)

\* the non-empty texts of ps joined by ", "
RECURSIVE JoinNonBlank(_)
JoinNonBlank(ps) ==
    IF ps = <<>> THEN <<>>
    ELSE IF Head(ps) = <<>> THEN JoinNonBlank(Tail(ps))
    ELSE IF JoinNonBlank(Tail(ps)) = <<>> THEN Head(ps)
    ELSE Head(ps) \o <<",", " ">> \o JoinNonBlank(Tail(ps))

\* C19: add_combined_address sets the combined address of each row to the
\* trimmed non-blank values of the mapped fields address_line_1,
\* address_line_2, address_line_3, city, county, postcode, in that order,
\* joined by ", "; the country value is never part of it, and it is empty
\* exactly when no address field is mapped or every mapped value is
\* missing or blank.
C19_CombinedAddress ==
    Combined_Returned =>
        /\ Len(df.rows) = Len(df_in.rows)
        /\ \A n \in 1..Len(df.rows) :
              /\ df.rows[n]["combined_address"] =
                    JoinNonBlank(<<TrimmedValue(n, "address_line_1"),
                                   TrimmedValue(n, "address_line_2"),
                                   TrimmedValue(n, "address_line_3"),
                                   TrimmedValue(n, "city"),
                                   TrimmedValue(n, "county"),
                                   TrimmedValue(n, "postcode")>>)
              /\ df.rows[n]["combined_address"] = <<>> <=>
                    \A f \in {"address_line_1", "address_line_2", "address_line_3",
                              "city", "county", "postcode"} : TrimmedValue(n, f) = <<>>

\* a table was combined in which one row joins its address and postcode,
\* leaving out its country, one has only a blank address beside its
\* postcode, and one has nothing but a country
C19_Witness ==
    /\ Combined_Returned
    /\ col_map["country"] /= <<>>
    /\ \E n \in 1..Len(df.rows) :
          /\ df_in.rows[n]["country"] = Cell(<<"I","r","e","l","a","n","d">>)
          /\ df.rows[n]["combined_address"] = <<"S","w","o","r","d","s",","," ","D","0","2"," ","Y","X","8","8">>
    /\ \E n \in 1..Len(df.rows) :
          /\ df_in.rows[n]["address"] = Cell(<<" ">>)
          /\ df.rows[n]["combined_address"] = <<"T","1","2">>
    /\ \E n \in 1..Len(df.rows) :
          /\ df_in.rows[n]["country"] = Cell(<<"I","r","e","l","a","n","d">>)
          /\ df.rows[n]["combined_address"] = <<>>

\* C20: no stage modifies a table it is given: add_combined_address leaves
\* the input table as it was, Classifier.classify and
\* SpainClassifier.classify leave the table with the combined address as
\* it was, and write_output leaves the classified and the exception table
\* as they were, also when one of them is empty.
C20_InputsUnmodified ==
    [][/\ cpc = "raw" /\ cpc' = "start" => df_in' = df_in
       /\ cpc = "start" => df_in' = df_in /\ df' = df
       /\ cpc = "classified" /\ cpc' = "written" =>
             /\ df_in' = df_in
             /\ df' = df
             /\ df_classified' = df_classified
             /\ df_exceptions' = df_exceptions]_vars

(***************************************************************************)
(* src/config_editor.py: validate_rules_config, validate_columns_config,   *)
(* backup_config, save_rules_config, save_columns_config                   *)
(*                                                                         *)
(* The data handed to a save is [type, keys, countries_is_dict, config],   *)
(* as the parsed content of a configuration file is.  An error is          *)
(* [msg, of]: the message and the list or field it names.                  *)
(***************************************************************************)
ConfigData(type, keys, countries_is_dict, cfg) ==
    [type |-> type, keys |-> keys, countries_is_dict |-> countries_is_dict,
     config |-> cfg]

\* not area or not str(area).strip()
BlankName(area) == area = "" \/ Strip(Spelling[area]) = <<>>

\* the loop over eircode_routing: a prefix must have 3 characters
EircodeErrors(eircode_routing) ==
    LET bad == SelectSeq(eircode_routing, LAMBDA e : Len(e.prefix) /= 3)
    IN  [n \in 1..Len(bad) |->
            [msg |-> "must be exactly 3 characters", of |-> "Eircode prefix"]]

\* the loop over the keywords of a list: the area is not blank and not
\* seen before in this list, and there is a pattern
RECURSIVE KeywordErrors(_, _, _)
KeywordErrors(kind, keywords, seen_areas) ==
    IF keywords = <<>> THEN <<>>
    ELSE LET entry == Head(keywords)
         IN  (IF BlankName(entry.area)
              THEN <<[msg |-> "area name must not be empty", of |-> kind]>>
              ELSE IF entry.area \in seen_areas
                   THEN <<[msg |-> "Duplicate area", of |-> kind]>>
                   ELSE <<>>)
             \o (IF entry.patterns = <<>>
                 THEN <<[msg |-> "must have at least one pattern", of |-> kind]>>
                 ELSE <<>>)
             \o KeywordErrors(kind, Tail(keywords),
                              IF BlankName(entry.area) THEN seen_areas
                              ELSE seen_areas \cup {entry.area})

\* validate_rules_config(data): the list of errors
validate_rules_config(data) ==
    IF data.type /= "dict"
    THEN <<[msg |-> "Config must be a dictionary", of |-> ""]>>
    ELSE IF "countries" \notin data.keys
    THEN <<[msg |-> "Missing required 'countries' key", of |-> ""]>>
    ELSE IF ~data.countries_is_dict
    THEN <<[msg |-> "'countries' must be a dictionary", of |-> ""]>>
    ELSE EircodeErrors(data.config.eircode_routing)
         \o KeywordErrors("Lettershop", data.config.lettershop_areas, {})
         \o KeywordErrors("National", data.config.national_areas, {})

\* the fields of the data, in the order of LOGICAL_FIELDS
FieldsOf(table) == SelectSeq(LOGICAL_FIELDS, LAMBDA f : f \in DOMAIN table)

\* the errors of one field: no alias, or the blank aliases
FieldErrors(field, field_aliases) ==
    IF field_aliases = <<>>
    THEN <<[msg |-> "must have at least one alias", of |-> field]>>
    ELSE LET bad == SelectSeq(field_aliases, LAMBDA a : Strip(a) = <<>>)
         IN  [n \in 1..Len(bad) |-> [msg |-> "has an empty alias", of |-> field]]

\* validate_columns_config(data): the list of errors
validate_columns_config(data) ==
    IF data.type /= "dict"
    THEN <<[msg |-> "Config must be a dictionary", of |-> ""]>>
    ELSE Flatten([n \in 1..Len(FieldsOf(data.config)) |->
                     FieldErrors(FieldsOf(data.config)[n],
                                 data.config[FieldsOf(data.config)[n]])])

\* Path(), the path with no parts
EmptyPath == <<>>

\* path.with_suffix(f".{timestamp}.bak"): the stem of the file and the
\* time of the call to the second
BackupPath(stem, t) == <<stem, t>>

\* d[k] = v on a dict
DictPut(d, k, v) == [x \in DOMAIN d \cup {k} |-> IF x = k THEN v ELSE d[x]]

\* yaml.dump(data, f) on the opened file: the content a later
\* yaml.safe_load reads
Dumped(data) ==
    ConfigFile(TRUE, TRUE, data.type, data.keys, data.countries_is_dict, data.config)

\* the effect of a save whose validation gave the errors: what it returns
\* or raises, the file and the backups after it
SaveOutcome(errors, stem, file, data, t, bk) ==
    IF errors /= <<>>
    THEN [backup_path |-> EmptyPath, errors |-> errors, raises |-> "",
          file |-> file, backups |-> bk]
    ELSE IF ~file.exists
    THEN [backup_path |-> EmptyPath, errors |-> <<>>, raises |-> "FileNotFoundError",
          file |-> file, backups |-> bk]
    ELSE [backup_path |-> BackupPath(stem, t), errors |-> <<>>, raises |-> "",
          file |-> Dumped(data),
          backups |-> DictPut(bk, BackupPath(stem, t), file)]

\* a save that writes whatever it is given
save_rules_config_unvalidated(file, data, t, bk) ==
    SaveOutcome(<<>>, "rules", file, data, t, bk)

\* save_rules_config(path, data)
save_rules_config(file, data, t, bk) ==
    SaveOutcome(validate_rules_config(data), "rules", file, data, t, bk)

\* save_columns_config(path, data)
save_columns_config(file, data, t, bk) ==
    SaveOutcome(validate_columns_config(data), "columns", file, data, t, bk)

(***************************************************************************)
(* Specification of the configuration editor beside the engine             *)
(* (pages/1_Configuration.py, pages/1_Lettershop_Ireland.py): the two      *)
(* configuration files are saved with data drawn from a few valid and      *)
(* invalid ones while the clock advances, Classifiers are constructed from *)
(* the rules file as it is on disk, and rows are classified with any of    *)
(* the Classifiers constructed so far.                                     *)
(***************************************************************************)
MaxTime == 1

MaxSaves == 2

MaxEngines == 2

\* rules that differ from BaseConfig in the area of the prefix T12
AltConfig == [BaseConfig EXCEPT !.eircode_routing[2].area = "Galway"]

\* data for save_rules_config: two valid ones, and a list, a dict without
\* "countries", a "countries" that is no dict, a prefix of two characters,
\* an empty lettershop area, a duplicate national area and an entry
\* without patterns
RulesDatas ==
    { ConfigData("dict", RulesKeys, TRUE, BaseConfig),
      ConfigData("dict", RulesKeys, TRUE, AltConfig),
      ConfigData("list", {}, FALSE, <<>>),
      ConfigData("dict", {"no_countries"}, FALSE, <<>>),
      ConfigData("dict", RulesKeys, FALSE, <<>>),
      ConfigData("dict", RulesKeys, TRUE,
                 [BaseConfig EXCEPT !.eircode_routing[1].prefix = <<"D","2">>]),
      ConfigData("dict", RulesKeys, TRUE,
                 [BaseConfig EXCEPT !.lettershop_areas[1].area = ""]),
      ConfigData("dict", RulesKeys, TRUE,
                 [BaseConfig EXCEPT !.national_areas[2].area = "Cork"]),
      ConfigData("dict", RulesKeys, TRUE,
                 [BaseConfig EXCEPT !.national_areas[1].patterns = <<>>]) }

\* data for save_columns_config: two alias tables, and a list, a field
\* without aliases and a blank alias
ColumnsDatas ==
    { ConfigData("dict", DOMAIN table, FALSE, table) : table \in AliasTables }
    \cup { ConfigData("list", {}, FALSE, <<>>),
           ConfigData("dict", {"city"}, FALSE, [city |-> <<>>]),
           ConfigData("dict", {"city", "county"}, FALSE,
                      [city |-> <<<<"t","o","w","n">>, <<" ">>>>, county |-> <<<<"c","o","u","n","t","y">>>>]) }

\* the files on disk at the start: the rules file is well-formed, is not
\* YAML, or is missing
EditRulesFiles ==
    { ConfigFile(TRUE, TRUE, "dict", RulesKeys, TRUE, BaseConfig),
      ConfigFile(TRUE, FALSE, "NoneType", {}, FALSE, <<>>),
      ConfigFile(FALSE, FALSE, "NoneType", {}, FALSE, <<>>) }

EditColumnsFiles ==
    { ConfigFile(TRUE, TRUE, "dict", {"original"}, FALSE, [original |-> <<>>]) }

EditTexts == { <<"T","1","2">>, <<"S","w","o","r","d","s">> }

EditInit ==
    /\ rules_file \in EditRulesFiles
    /\ columns_file \in EditColumnsFiles
    /\ rules_versions = <<rules_file>>
    /\ now = 0
    /\ backups = <<>>
    /\ save_result = NoSave
    /\ saves = <<>>
    /\ engines = <<>>
    /\ used = 0
    /\ profile = "ireland"
    /\ config = <<>>
    /\ d1_mapping = <<>>
    /\ engine = None
    /\ raised = ""
    /\ lpc = "idle"

\* time passes
Tick ==
    /\ now < MaxTime
    /\ now' = now + 1
    /\ UNCHANGED <<backups, save_result, saves, rules_versions, engines, used>>
    /\ UNCHANGED <<districtVars, detectVars, engineVars, rowVars, tableVars, matchVars, workerVars>>

\* save_rules_config(RULES_PATH, data)
SaveRulesConfig ==
    /\ Len(saves) < MaxSaves
    /\ \E data \in RulesDatas :
          LET out == save_rules_config(rules_file, data, now, backups)
          IN  /\ rules_file' = out.file
              /\ backups' = out.backups
              /\ raised' = out.raises
              /\ save_result' = [data |-> data, backup_path |-> out.backup_path,
                                 errors |-> out.errors]
              /\ IF out.raises = "" /\ out.errors = <<>>
                 THEN /\ saves' = Append(saves, [stem |-> "rules",
                                                 backup_path |-> out.backup_path,
                                                 before |-> rules_file])
                      /\ rules_versions' = Append(rules_versions, out.file)
                 ELSE UNCHANGED <<saves, rules_versions>>
    /\ UNCHANGED <<now, engines, used>>
    /\ UNCHANGED <<profile, config, d1_mapping, columns_file, engine, lpc>>
    /\ UNCHANGED <<districtVars, detectVars, rowVars, tableVars, matchVars, workerVars>>

\* save_columns_config(COLUMNS_PATH, data)
SaveColumnsConfig ==
    /\ Len(saves) < MaxSaves
    /\ \E data \in ColumnsDatas :
          LET out == save_columns_config(columns_file, data, now, backups)
          IN  /\ columns_file' = out.file
              /\ backups' = out.backups
              /\ raised' = out.raises
              /\ save_result' = [data |-> data, backup_path |-> out.backup_path,
                                 errors |-> out.errors]
              /\ IF out.raises = "" /\ out.errors = <<>>
                 THEN saves' = Append(saves, [stem |-> "columns",
                                              backup_path |-> out.backup_path,
                                              before |-> columns_file])
                 ELSE UNCHANGED saves
    /\ UNCHANGED <<now, rules_versions, engines, used>>
    /\ UNCHANGED <<profile, config, d1_mapping, rules_file, engine, lpc>>
    /\ UNCHANGED <<districtVars, detectVars, rowVars, tableVars, matchVars, workerVars>>

\* Classifier(): the rules file is loaded as it is on disk now
ConstructEngine ==
    /\ Len(engines) < MaxEngines
    /\ raised' = Classifier_init(rules_file)
    /\ IF Classifier_init(rules_file) = ""
       THEN engines' = Append(engines, [config |-> rules_file.config,
                                        born   |-> Len(rules_versions)])
       ELSE UNCHANGED engines
    /\ UNCHANGED <<now, backups, save_result, saves, rules_versions, used>>
    /\ UNCHANGED <<profile, config, d1_mapping, rules_file, columns_file, engine, lpc>>
    /\ UNCHANGED <<districtVars, detectVars, rowVars, tableVars, matchVars, workerVars>>

\* a Classifier that reads the rules from the file at every row
EngineConfig_reread(e, file) == file.config

\* self.config of a Classifier, as _classify_row and its handlers read it
EngineConfig(e, file) == e.config

\* _classify_row(combined, "") on one of the Classifiers constructed
ClassifyWithEngine ==
    /\ \E e \in 1..Len(engines) :
          \E t \in EditTexts :
              /\ used' = e
              /\ combined' = t
              /\ result' = Classifier_classify_row(
                               EngineConfig(engines[e], rules_file), t, <<>>,
                               district_patterns)
              /\ district_patterns' =
                     CacheAfterRow(EngineConfig(engines[e], rules_file), t, <<>>,
                                   district_patterns)
    /\ UNCHANGED <<country_val, pc_col, calls, rpc>>
    /\ UNCHANGED <<text, district, dpc>>
    /\ UNCHANGED <<now, backups, save_result, saves, rules_versions, engines>>
    /\ UNCHANGED <<detectVars, engineVars, tableVars, matchVars, workerVars>>

EditNext ==
    \/ Tick
    \/ SaveRulesConfig
    \/ SaveColumnsConfig
    \/ ConstructEngine
    \/ ClassifyWithEngine

EditSpecInit ==
    /\ EditInit
    /\ DistrictIdle
    /\ DetectIdle
    /\ RowIdle
    /\ TableIdle
    /\ MatchIdle
    /\ WorkersIdle

SpecEdit == EditSpecInit /\ [][EditNext]_vars

(***************************************************************************)
(* Claims about the configuration editor                                   *)
(***************************************************************************)
\* the errors of validating the data given to the last save
ValidationErrors(call) ==
    IF call.data \in RulesDatas THEN validate_rules_config(call.data)
    ELSE validate_columns_config(call.data)

\* C21: when validation of the data fails, save_rules_config and
\* save_columns_config return a non-empty error list and an empty backup
\* path, leave the configuration file unchanged and create no backup file;
\* a configuration file changes only through a save whose data passed
\* validation, and then to that data.
C21_FailedSaveWritesNothing ==
    [][/\ save_result' /= save_result =>
             /\ save_result'.errors = ValidationErrors(save_result')
             /\ save_result'.errors /= <<>> =>
                   /\ save_result'.backup_path = EmptyPath
                   /\ rules_file' = rules_file
                   /\ columns_file' = columns_file
                   /\ backups' = backups
       /\ rules_file' /= rules_file =>
             /\ save_result'.data \in RulesDatas
             /\ validate_rules_config(save_result'.data) = <<>>
             /\ rules_file' = Dumped(save_result'.data)
       /\ columns_file' /= columns_file =>
             /\ save_result'.data \in ColumnsDatas
             /\ validate_columns_config(save_result'.data) = <<>>
             /\ columns_file' = Dumped(save_result'.data)]_vars

\* after a successful save of the rules, a save of rules that fail
\* validation has returned: the file holds the data saved first and only
\* the backup of the first save exists
C21_Witness ==
    /\ save_result.data \in RulesDatas
    /\ save_result.errors /= <<>>
    /\ save_result.backup_path = EmptyPath
    /\ Len(saves) = 1
    /\ rules_file = Dumped(ConfigData("dict", RulesKeys, TRUE, AltConfig))
    /\ DOMAIN backups = {saves[1].backup_path}

\* C22: after any sequence of successful saves, each save has a backup
\* file whose content is the content the configuration file had immediately
\* before that save, also when two saves fall into the same second.
C22_BackupOfEverySave ==
    \A k \in 1..Len(saves) :
        /\ saves[k].backup_path \in DOMAIN backups
        /\ backups[saves[k].backup_path] = saves[k].before

\* the rules the Classifier e loaded: the content the rules file had when
\* e was constructed
RulesLoadedBy(e) == rules_versions[e.born].config

\* C23: a Classifier holds the rules the file had at its construction, so
\* one constructed after a successful save holds the saved rules; a save
\* changes no Classifier constructed before it, and every classify call of
\* a Classifier gives the result of the rules it loaded, whatever the file
\* holds by then.
C23_Inv ==
    /\ \A e \in 1..Len(engines) :
          /\ engines[e].config = RulesLoadedBy(engines[e])
          /\ engines[e].born > 1 =>
                /\ rules_versions[engines[e].born].exists
                /\ \E data \in RulesDatas :
                      /\ validate_rules_config(data) = <<>>
                      /\ engines[e].config = data.config
    /\ used /= 0 =>
          result = Classifier_classify_row(RulesLoadedBy(engines[used]), combined,
                                           country_val, district_patterns)

C23_Step ==
    /\ rules_file' /= rules_file => engines' = engines
    /\ \A e \in 1..Len(engines) : engines'[e] = engines[e]

C23_RulesOfConstruction == [](C23_Inv) /\ [][C23_Step]_vars

\* a Classifier was constructed, the rules were then saved with another
\* area for T12 and a second Classifier was constructed; the first one has
\* just classified "T12" by the rules it loaded, which are not those of the
\* file any more, while the second holds the saved rules
C23_Witness ==
    /\ Len(engines) = 2
    /\ engines[1].config = BaseConfig
    /\ engines[2].config = AltConfig
    /\ rules_file.config = AltConfig
    /\ used = 1
    /\ combined = <<"T","1","2">>
    /\ result = ClassificationResult("Cork", "NATIONAL", "")

(***************************************************************************)
(* Specification of the Eircode matcher: match_eircode is called on a text *)
(* drawn from the concatenations of a few chunks, with one of a few        *)
(* routing tables.                                                         *)
(***************************************************************************)
MaxEircodeParts == 3

EircodeChunks ==
    { <<"D","0","2">>, <<"T","1","2"," ","Y","X","8","8">>, <<"t","1","2">>, <<"0","2">>, <<"R","o","a","d">>, <<"U","n","i","t","1","2">>, <<",">>, <<" ">> }

EircodeTexts == {Flatten(cs) : cs \in SeqsUpTo(EircodeChunks, MaxEircodeParts)}

\* eircode_routing in the order of the shipped file, in the reverse order,
\* and with a prefix written in lower case
RoutingTables ==
    { << [prefix |-> <<"D","0","2">>, area |-> "Dublin 2"], [prefix |-> <<"T","1","2">>, area |-> "Cork"] >>,
      << [prefix |-> <<"T","1","2">>, area |-> "Cork"], [prefix |-> <<"D","0","2">>, area |-> "Dublin 2"] >>,
      << [prefix |-> <<"d","0","2">>, area |-> "Dublin 2"] >> }

EircodeInit ==
    /\ eircode_text \in EircodeTexts
    /\ routing_table \in RoutingTables
    /\ matched_area = None
    /\ epc = "start"

\* match_eircode(text, eircode_routing)
MatchEircode ==
    /\ epc = "start"
    /\ matched_area' = match_eircode(eircode_text, routing_table)
    /\ epc' = "done"
    /\ UNCHANGED <<eircode_text, routing_table>>
    /\ UNCHANGED <<districtVars, detectVars, engineVars, rowVars, tableVars,
                   editVars, workerVars>>

EircodeNext == MatchEircode

EircodeSpecInit ==
    /\ EircodeInit
    /\ DistrictIdle
    /\ DetectIdle
    /\ EngineIdle
    /\ RowIdle
    /\ TableIdle
    /\ EditIdle
    /\ WorkersIdle

SpecEircode == EircodeSpecInit /\ [][EircodeNext]_vars

(***************************************************************************)
(* Claims about match_eircode                                              *)
(***************************************************************************)
\* the text in upper case without its spaces
Squeezed(t) == SelectSeq(UpperText(t), LAMBDA c : c /= " ")

\* letters, digits and the underscore make up words
InWord(t, i) == i >= 1 /\ i <= Len(t) /\ (IsLetter(t[i]) \/ IsDigit(t[i]) \/ t[i] = "_")

\* lit stands in t at position i
StandsAt(t, i, lit) ==
    /\ i + Len(lit) - 1 <= Len(t)
    /\ \A k \in 1..Len(lit) : t[i + k - 1] = lit[k]

\* the entries whose prefix starts a full code in the squeezed text: the
\* prefix, then exactly four capitals or digits, with no word character
\* before or after
FullCodeEntries ==
    LET u == Squeezed(eircode_text)
    IN  {n \in 1..Len(routing_table) :
            LET p == Squeezed(routing_table[n].prefix)
            IN  \E i \in 1..Len(u) :
                    /\ StandsAt(u, i, p)
                    /\ i + Len(p) + 3 <= Len(u)
                    /\ \A k \in 0..3 : IsUpper(u[i + Len(p) + k]) \/ IsDigit(u[i + Len(p) + k])
                    /\ ~InWord(u, i - 1)
                    /\ ~InWord(u, i + Len(p) + 4)}

\* the entries whose prefix occurs in the squeezed text
BarePrefixEntries ==
    LET u == Squeezed(eircode_text)
    IN  {n \in 1..Len(routing_table) :
            \E i \in 1..Len(u) : StandsAt(u, i, Squeezed(routing_table[n].prefix))}

\* the area of the first entry of S in the order of the table
FirstAreaOf(S) ==
    routing_table[CHOOSE n \in S : \A m \in S : n <= m].area

PrefixAtWordStart ==
    \E n \in 1..Len(routing_table) :
        \E i \in 1..Len(eircode_text) :
            /\ StandsAt(UpperText(eircode_text), i, Squeezed(routing_table[n].prefix))
            /\ ~InWord(eircode_text, i - 1)

\* C26: a text in which no prefix of the table stands at the start of a
\* word (the characters of a prefix occur only inside a word, or only
\* across two words once the spaces are removed) yields no area.
C26_PrefixAtWordBoundary ==
    epc = "done" /\ ~PrefixAtWordStart => matched_area = None

(***************************************************************************)
(* Claim about the determinism of detect_columns                           *)
(***************************************************************************)
\* the mapping of a whole run of the three passes from pass p, field k on,
\* with the available columns iterated in the order avail
RECURSIVE MappingOfRun(_, _, _, _, _)
MappingOfRun(table, p, k, m, avail) ==
    IF p > 3 THEN m
    ELSE IF k > Len(LOGICAL_FIELDS) THEN MappingOfRun(table, p + 1, 1, m, avail)
    ELSE LET matched == MatchOfPass(p, AliasesOf(table, LOGICAL_FIELDS[k]), avail)
         IN  IF LOGICAL_FIELDS[k] \in DOMAIN m \/ matched = <<>>
             THEN MappingOfRun(table, p, k + 1, m, avail)
             ELSE MappingOfRun(table, p, k + 1,
                               SetItem(m, LOGICAL_FIELDS[k], matched[1]),
                               Discard(avail, matched[1]))

\* C28: the ColumnMapping returned is a function of the alias table and
\* the list of column names: it is the one of the run that iterates the
\* available columns in the order of the list, whatever order the set of
\* available columns has in this run.
C28_Deterministic ==
    outcome = "returned" =>
        col_map = ColumnMapping(MappingOfRun(aliases, 1, 1, <<>>, actual_columns))

(***************************************************************************)
(* Claim about the routing of an area                                      *)
(***************************************************************************)
\* the rules of the Classifier pass validate_rules_config
ConfigIsValid ==
    validate_rules_config(ConfigData("dict", RulesKeys, TRUE, config)) = <<>>

\* C29: for a configuration that passes validate_rules_config, any two
\* rows of the Ireland classified table with the same area have the same
\* routing.
C29_RoutingFunctionOfArea ==
    Classified_Returned /\ profile = "ireland" /\ ConfigIsValid =>
        \A p, q \in 1..Len(df_classified.rows) :
            df_classified.rows[p]["Lettershop Area"] =
                df_classified.rows[q]["Lettershop Area"]
            => df_classified.rows[p]["Routing"] = df_classified.rows[q]["Routing"]

(***************************************************************************)
(* Specification of concurrent first use of the district table             *)
(* (src/ireland.py): in a fresh process several workers call               *)
(* match_dublin_district, each on a text of its own.  A worker's steps are *)
(* the test of the global in build_dublin_patterns, one pass of the loop   *)
(* that fills its local dict, the assignment to the global, and the loop   *)
(* over the table it was given.  The steps of the workers interleave in    *)
(* any order.                                                              *)
(***************************************************************************)
MaxWorkers == 2

Workers == 1..MaxWorkers

WorkerTexts == { <<>>, <<"D","u","b","l","i","n"," ","6","W">>, <<"1","0"," ","D","u","b","l","i","n"," ","1">> }

WorkerInit ==
    /\ worker_text \in [Workers -> WorkerTexts]
    /\ worker_pc = [w \in Workers |-> "start"]
    /\ local_patterns = [w \in Workers |-> <<>>]
    /\ worker_label = [w \in Workers |-> None]
    /\ text = <<>>
    /\ district_patterns = <<>>
    /\ district = None
    /\ dpc = "idle"

\* match_dublin_district(text): `if not text: return None`, else
\* build_dublin_patterns() is entered
WorkerStart ==
    /\ \E w \in Workers :
          /\ worker_pc[w] = "start"
          /\ worker_pc' = [worker_pc EXCEPT
                              ![w] = IF worker_text[w] = <<>> THEN "done" ELSE "check"]
    /\ UNCHANGED <<worker_text, local_patterns, worker_label>>
    /\ UNCHANGED <<districtVars, detectVars, engineVars, rowVars, tableVars,
                   editVars, matchVars>>

\* build_dublin_patterns: `if _DISTRICT_PATTERNS: return _DISTRICT_PATTERNS`,
\* else `patterns = {}`
WorkerCheck ==
    /\ \E w \in Workers :
          /\ worker_pc[w] = "check"
          /\ IF district_patterns /= <<>>
             THEN /\ local_patterns' = [local_patterns EXCEPT ![w] = district_patterns]
                  /\ worker_pc' = [worker_pc EXCEPT ![w] = "iterate"]
             ELSE /\ local_patterns' = [local_patterns EXCEPT ![w] = <<>>]
                  /\ worker_pc' = [worker_pc EXCEPT ![w] = "build"]
    /\ UNCHANGED <<worker_text, worker_label>>
    /\ UNCHANGED <<districtVars, detectVars, engineVars, rowVars, tableVars,
                   editVars, matchVars>>

\* a build that fills the global dict itself
GlobalWhileBuilding_inPlace(global, local) == local

\* the global during the loop of build_dublin_patterns: the loop fills the
\* local dict and leaves the global alone
GlobalWhileBuilding(global, local) == global

\* one pass of `for district in DUBLIN_DISTRICTS`:
\* patterns[label] = re.compile(regex, re.IGNORECASE)
WorkerBuild ==
    /\ \E w \in Workers :
          /\ worker_pc[w] = "build"
          /\ Len(local_patterns[w]) < Len(DUBLIN_DISTRICTS)
          /\ local_patterns' =
                 [local_patterns EXCEPT
                     ![w] = Append(@, BuiltPatterns[Len(local_patterns[w]) + 1])]
          /\ district_patterns' =
                 GlobalWhileBuilding(district_patterns, local_patterns'[w])
    /\ UNCHANGED <<worker_text, worker_pc, worker_label>>
    /\ UNCHANGED <<text, district, dpc>>
    /\ UNCHANGED <<detectVars, engineVars, rowVars, tableVars, editVars, matchVars>>

\* `_DISTRICT_PATTERNS = patterns; return patterns` after the loop
WorkerAssign ==
    /\ \E w \in Workers :
          /\ worker_pc[w] = "build"
          /\ Len(local_patterns[w]) = Len(DUBLIN_DISTRICTS)
          /\ district_patterns' = local_patterns[w]
          /\ worker_pc' = [worker_pc EXCEPT ![w] = "iterate"]
    /\ UNCHANGED <<worker_text, local_patterns, worker_label>>
    /\ UNCHANGED <<text, district, dpc>>
    /\ UNCHANGED <<detectVars, engineVars, rowVars, tableVars, editVars, matchVars>>

\* the loop of match_dublin_district over patterns.items()
WorkerIterate ==
    /\ \E w \in Workers :
          /\ worker_pc[w] = "iterate"
          /\ worker_label' = [worker_label EXCEPT
                                 ![w] = FirstDistrict(local_patterns[w], worker_text[w])]
          /\ worker_pc' = [worker_pc EXCEPT ![w] = "done"]
    /\ UNCHANGED <<worker_text, local_patterns>>
    /\ UNCHANGED <<districtVars, detectVars, engineVars, rowVars, tableVars,
                   editVars, matchVars>>

WorkerNext ==
    \/ WorkerStart
    \/ WorkerCheck
    \/ WorkerBuild
    \/ WorkerAssign
    \/ WorkerIterate

WorkerSpecInit ==
    /\ WorkerInit
    /\ DetectIdle
    /\ EngineIdle
    /\ RowIdle
    /\ TableIdle
    /\ EditIdle
    /\ MatchIdle

SpecWorkers == WorkerSpecInit /\ [][WorkerNext]_vars

(***************************************************************************)
(* Claim about concurrent first use                                        *)
(***************************************************************************)
\* the table is complete: the 22 districts in the order of DUBLIN_DISTRICTS
CompleteTable(table) ==
    /\ Len(table) = 22
    /\ \A n \in 1..22 : table[n].label = DUBLIN_DISTRICTS[n].label

\* C30: under every interleaving of the workers, every worker iterates a
\* complete table of the 22 districts in the order of DUBLIN_DISTRICTS,
\* never an empty or partly filled one, and returns the label a sequential
\* call returns for its text; the memoized table is empty or complete, so
\* later calls to build_dublin_patterns return the same table.
C30_SafeFirstUse ==
    /\ district_patterns = <<>> \/ CompleteTable(district_patterns)
    /\ \A w \in DOMAIN worker_pc :
          /\ worker_pc[w] \in {"iterate", "done"} /\ worker_text[w] /= <<>> =>
                CompleteTable(local_patterns[w])
          /\ worker_pc[w] = "done" =>
                worker_label[w] = match_dublin_district(worker_text[w], <<>>)
    /\ \A v, w \in DOMAIN worker_pc :
          worker_pc[v] = "iterate" /\ worker_pc[w] = "iterate" =>
              local_patterns[v] = local_patterns[w]

\* both workers found the global empty: the first has built and assigned
\* its table and returned Dublin 6W while the second is still filling its
\* own dict
C30_Witness ==
    /\ worker_pc[1] = "done"
    /\ worker_label[1] = "Dublin 6W"
    /\ worker_pc[2] = "build"
    /\ Len(local_patterns[2]) \in 1..21
    /\ CompleteTable(district_patterns)

====
